---- MODULE Spec2Model ----
(***************************************************************************)
(* A model of probflow's graph-construction and fitting engine             *)
(* (src/src/probflow/core.py): the Layer/Distribution constructor that     *)
(* binds arguments against a class schema, the recursive dual build with   *)
(* its loss accounting, the fit loop with posterior recording, and the     *)
(* guards of the diagnostic methods.                                       *)
(*                                                                         *)
(* Python values are records [k |-> kind, v |-> payload]: the kind is the  *)
(* result of the isinstance tests the code performs, the payload is the    *)
(* integer value of a number or the index of a node in the object store.   *)
(***************************************************************************)
EXTENDS Integers, Sequences, FiniteSets, TLC

VARIABLES
    call,       \* the constructor call about to be made (SpecCtor)
    nodes,      \* the object store: the nodes constructed so far
    lastCall,   \* the operation called last and how it ended
    root,       \* the Distribution fit() is called on (0: none)
    model,      \* the training state fit() keeps on the root
    sessions,   \* the sessions created and not closed
    fit,        \* the activation of fit(): its arguments and loop position
    history     \* how many fit() calls passed validation, how many returned

vars == <<call, nodes, lastCall, root, model, sessions, fit, history>>

fitvars == <<root, model, sessions, fit, history>>

(***************************************************************************)
(* Bounds of the model.                                                    *)
(***************************************************************************)
\* most positional values passed to one constructor call
MaxPos == 3
\* most keywords passed to one constructor call
MaxKw == 2

(***************************************************************************)
(* Python values.                                                          *)
(***************************************************************************)
V(k, v) == [k |-> k, v |-> v]

\* the sentinel object of core.py that marks an argument without default
REQUIRED == V("REQUIRED", 0)

None == V("none", 0)

\* an attribute no statement has assigned yet
Unset == V("unset", 0)

\* one entry of an ordered dict: a schema entry (name, default) or a bound
\* argument (name, value)
A(n, x) == [name |-> n, val |-> x]

Names(d) == [i \in DOMAIN d |-> d[i].name]

Values(d) == [i \in DOMAIN d |-> d[i].val]

\* d[name] of an ordered dict holding the name
Get(d, n) == d[CHOOSE i \in DOMAIN d : d[i].name = n].val

Range(s) == {s[i] : i \in DOMAIN s}

\* t[i] of a Python tuple: indices -len(t) .. len(t)-1 are in range
TupleIndexOk(t, i) == i < Len(t) /\ i >= -Len(t)

TupleGet(t, i) == IF i >= 0 THEN t[i + 1] ELSE t[Len(t) + i + 1]

(***************************************************************************)
(* Classes: the schema attributes a subclass of BaseLayer declares.        *)
(* default_args and default_kwargs are ordered dicts (name, default);      *)
(* dist tells a subclass of BaseDistribution; self_kl is what the class's  *)
(* _kl_loss() returns, self_log and self_mean_log what its _log_loss and   *)
(* _mean_log_loss return (0 unless overridden).                            *)
(***************************************************************************)
Cls(n, d, da, dk, h) ==
    [name |-> n, dist |-> d, default_args |-> da, default_kwargs |-> dk,
     self_kl |-> h.kl, self_log |-> h.log, self_mean_log |-> h.mean_log]

\* the hooks of BaseLayer: _log_loss, _mean_log_loss and _kl_loss return 0
NoLoss == [kl |-> 0, log |-> 0, mean_log |-> 0]

\* BaseLayer's own schema: one required argument 'input', no keyword options
LayerCls == Cls("Layer", FALSE, <<A("input", REQUIRED)>>, <<>>, NoLoss)

\* the Add layer of the BaseLayer docstring: two required arguments
AddCls == Cls("Add", FALSE, <<A("a", REQUIRED), A("b", REQUIRED)>>, <<>>,
        NoLoss)

\* the Normal distribution of the BaseDistribution docstring: all defaulted;
\* its _log_loss and _mean_log_loss are the log-density of the data
NormalCls ==
    Cls("Normal", TRUE, <<A("mu", V("float", 0)), A("sigma", V("float", 1))>>,
        <<>>, [kl |-> 0, log |-> 31, mean_log |-> 37])

\* the Input layer fit() resolves columns for: no arguments, option 'cols'
InputCls == Cls("Input", FALSE, <<>>, <<A("cols", V("int", 0))>>, NoLoss)

\* a layer with a required and a defaulted argument, two keyword options
\* and loss hooks of its own
AffineCls ==
    Cls("Affine", FALSE,
        <<A("input", REQUIRED), A("bias", V("float", 0))>>,
        <<A("units", V("int", 1)), A("axis", V("int", 0))>>,
        [kl |-> 3, log |-> 4, mean_log |-> 6])

Classes == {LayerCls, AddCls, NormalCls, InputCls, AffineCls}

ClassOf(n) == CHOOSE c \in Classes : c.name = n

(***************************************************************************)
(* BaseLayer._arg_is                                                       *)
(***************************************************************************)
TensorLikeKinds == {"int", "float", "ndarray", "tensor"}

arg_is_valid_dropping_dist_test(arg) ==
    arg.k \in TensorLikeKinds \cup {"layer", "dist", "param"}

arg_is_valid(arg) ==
    /\ ~(arg.k = "dist")
    /\ arg.k \in TensorLikeKinds \cup {"layer", "dist", "param"}

arg_is(type_str, arg) ==
    CASE type_str = "tensor_like" -> arg.k \in TensorLikeKinds
      [] type_str = "distribution" -> arg.k = "dist"
      [] type_str = "layer" -> arg.k \in {"layer", "dist"}
      [] type_str = "parameter" -> arg.k = "param"
      [] type_str = "valid" -> arg_is_valid(arg)

(***************************************************************************)
(* BaseLayer.__init__                                                      *)
(***************************************************************************)
\* the value bound to the ix-th schema argument (ix counts from 0)
BindArg_keyword_first(cls, args, kwargs, ix) ==
    LET a == cls.default_args[ix + 1] IN
    IF a.name \in DOMAIN kwargs THEN kwargs[a.name]
    ELSE IF ix < Len(args) THEN args[ix + 1]
    ELSE a.val

BindArg(cls, args, kwargs, ix) ==
    LET a == cls.default_args[ix + 1] IN
    IF ix < Len(args) THEN args[ix + 1]
    ELSE IF a.name \in DOMAIN kwargs THEN kwargs[a.name]
    ELSE a.val

BindArgs(cls, args, kwargs) ==
    [i \in 1..Len(cls.default_args) |->
        A(cls.default_args[i].name, BindArg(cls, args, kwargs, i - 1))]

\* the ix-th keyword option: [err, val]
BindKwarg(cls, args, kwargs, ix) ==
    LET kw == cls.default_kwargs[ix + 1] IN
    IF Len(args) > Len(cls.default_args) + ix
    THEN IF TupleIndexOk(args, Len(args) + ix)
         THEN [err |-> "none", val |-> TupleGet(args, Len(args) + ix)]
         ELSE [err |-> "IndexError", val |-> None]
    ELSE IF kw.name \in DOMAIN kwargs
         THEN [err |-> "none", val |-> kwargs[kw.name]]
         ELSE [err |-> "none", val |-> kw.val]

BindKwargs(cls, args, kwargs) ==
    [i \in 1..Len(cls.default_kwargs) |->
        A(cls.default_kwargs[i].name, BindKwarg(cls, args, kwargs, i - 1).val)]

\* BaseObject._validate_kwargs: the default hook accepts everything
validate_kwargs(kw) == TRUE

\* the attributes __init__ sets on a new object
NewObj(cls, bound, kw) ==
    [kind |-> IF cls.dist THEN "dist" ELSE "layer",
     cls |-> cls.name,
     name |-> "",
     losses |-> NoLoss,
     args |-> bound,
     kwargs |-> kw,
     built_obj |-> None,
     built_args |-> None,
     mean_obj |-> None,
     mean_args |-> None,
     has_sums |-> FALSE,
     samp_loss_sum |-> 0,
     mean_loss_sum |-> 0,
     kl_loss_sum |-> 0,
     p_log_loss |-> 0,
     p_mean_log_loss |-> 0,
     p_kl_loss |-> 0,
     session |-> 0,
     is_fit |-> FALSE,
     log_loss |-> 0,
     int_cols |-> Unset,
     nunique |-> Unset,
     hook |-> "ok",
     builds |-> 0]

NoObj == [kind |-> "none"]

\* The outcome of cls(*args, **kwargs): the error raised, what its message
\* names (the class, the argument names it lists, the offending argument),
\* and the object when none is raised.
LayerInit(cls, args, kwargs) ==
    LET bound == BindArgs(cls, args, kwargs)
        missing == {i \in DOMAIN bound : bound[i].val = REQUIRED}
        badtype == {i \in DOMAIN bound : ~arg_is("valid", bound[i].val)}
        badkw == {i \in DOMAIN cls.default_kwargs :
                     BindKwarg(cls, args, kwargs, i - 1).err # "none"}
        fail(e, w, ns, a) ==
            [err |-> e, why |-> w, msg_cls |-> cls.name, msg_names |-> ns,
             msg_arg |-> a, obj |-> NoObj]
    IN  IF missing # {}
        THEN fail("TypeError", "required", Names(cls.default_args), "")
        ELSE IF badtype # {}
        THEN fail("TypeError", "type", <<>>,
                  bound[CHOOSE i \in badtype : \A j \in badtype : i <= j].name)
        ELSE IF badkw # {}
        THEN [err |-> "IndexError", why |-> "index", msg_cls |-> "",
              msg_names |-> <<>>, msg_arg |-> "", obj |-> NoObj]
        ELSE [err |-> "none", why |-> "", msg_cls |-> "", msg_names |-> <<>>,
              msg_arg |-> "",
              obj |-> NewObj(cls, bound, BindKwargs(cls, args, kwargs))]

(***************************************************************************)
(* The constructor on its own: one call, with the class, the positional    *)
(* values and the keywords drawn from bounded sets.                        *)
(***************************************************************************)
\* values passed positionally: numbers, a string, and instances of a
\* Layer, a Distribution and a Parameter
PosValues ==
    {V("int", 1), V("float", 2), V("str", 0),
     V("layer", 0), V("dist", 0), V("param", 0)}

\* values passed by keyword
KwValues == {V("int", 7), V("dist", 0)}

Tuples(S, n) == UNION {[1..m -> S] : m \in 0..n}

\* keyword names: the names of both schemas and one name of neither
KwNames(cls) ==
    Range(Names(cls.default_args)) \cup Range(Names(cls.default_kwargs))
        \cup {"other"}

Dicts(K, S, n) ==
    UNION {[D -> S] : D \in {D \in SUBSET K : Cardinality(D) <= n}}

NoCall == [cls |-> "", args |-> <<>>, kwargs |-> <<>>]

\* no snapshot buffers
NoRecords == [n_records |-> 0, bufs |-> <<>>]

\* the root's training attributes before any fit(): none of them exists
\* (0: the attribute is not set)
NoModel ==
    [train |-> 0, ph |-> 0, has_parameters |-> FALSE, parameters |-> <<>>,
     session |-> 0, has_records |-> FALSE, records |-> NoRecords]

Idle == [pc |-> "idle"]

NoHistory == [calls |-> 0, returned |-> 0]

NoFit ==
    /\ root = 0
    /\ model = NoModel
    /\ sessions = {}
    /\ fit = Idle
    /\ history = NoHistory

NoResult == [op |-> "none"]

InitCtor ==
    /\ \E cls \in Classes, args \in Tuples(PosValues, MaxPos) :
         \E kwargs \in Dicts(KwNames(cls), KwValues, MaxKw) :
            call = [cls |-> cls.name, args |-> args, kwargs |-> kwargs]
    /\ nodes = <<>>
    /\ lastCall = NoResult
    /\ NoFit

\* cls(*args, **kwargs) for the pending call
Construct ==
    /\ lastCall.op = "none"
    /\ LET r == LayerInit(ClassOf(call.cls), call.args, call.kwargs) IN
       /\ nodes' = IF r.err = "none" THEN Append(nodes, r.obj) ELSE nodes
       /\ lastCall' = [op |-> "init", err |-> r.err, why |-> r.why,
                       msg_cls |-> r.msg_cls, msg_names |-> r.msg_names,
                       msg_arg |-> r.msg_arg]
    /\ UNCHANGED <<call, fitvars>>

NextCtor == Construct

SpecCtor == InitCtor /\ [][NextCtor]_vars

(***************************************************************************)
(* Properties of the constructor (checked under SpecCtor).                 *)
(***************************************************************************)
Called == lastCall.op = "init"

CalledCls == ClassOf(call.cls)

\* the value the binding rule gives the i-th schema name: the positional
\* value at its position, else the keyword of its name, else the default
RuleValue(cls, args, kwargs, i) ==
    IF i <= Len(args) THEN args[i]
    ELSE IF cls.default_args[i].name \in DOMAIN kwargs
         THEN kwargs[cls.default_args[i].name]
         ELSE cls.default_args[i].val

\* the same call with every positional value passed by its schema name
\* instead (a keyword of the same name gives way to the positional value)
AsKeywords(cls, args, kwargs) ==
    LET given == {cls.default_args[i].name : i \in 1..Len(args)} IN
    [n \in given \cup DOMAIN kwargs |->
        IF n \in given
        THEN args[CHOOSE i \in 1..Len(args) : cls.default_args[i].name = n]
        ELSE kwargs[n]]

\* C1: every schema name is bound to the positional value at its position
\* if one was given, else to the keyword of that name, else to the schema
\* default; and passing the positional values by keyword instead gives the
\* same outcome and the same args.
C1_BindingRule ==
    Called =>
        /\ lastCall.err = "none" =>
              \A i \in DOMAIN CalledCls.default_args :
                 /\ nodes[1].args[i].name = CalledCls.default_args[i].name
                 /\ nodes[1].args[i].val =
                       RuleValue(CalledCls, call.args, call.kwargs, i)
        /\ (Len(call.args) <= Len(CalledCls.default_args)) =>
              LET k == LayerInit(CalledCls, <<>>,
                                 AsKeywords(CalledCls, call.args, call.kwargs))
              IN  /\ k.err = lastCall.err
                  /\ lastCall.err = "none" => k.obj.args = nodes[1].args

\* a call that binds one name positionally, one by keyword and succeeds
C1_Witness ==
    /\ Called /\ lastCall.err = "none"
    /\ call.cls = "Normal" /\ Len(call.args) = 1
    /\ DOMAIN call.kwargs = {"mu", "sigma"}
    /\ call.kwargs["mu"] # call.args[1]
    /\ nodes[1].args = <<A("mu", call.args[1]), A("sigma", call.kwargs["sigma"])>>

StillRequired ==
    \E i \in DOMAIN CalledCls.default_args :
       RuleValue(CalledCls, call.args, call.kwargs, i) = REQUIRED

RequiredNames(cls) ==
    {cls.default_args[i].name :
        i \in {j \in DOMAIN cls.default_args : cls.default_args[j].val = REQUIRED}}

\* C3: a call that leaves an argument REQUIRED fails with a TypeError whose
\* message names the class and lists the names whose default is REQUIRED.
C3_RequiredMessage ==
    (Called /\ StillRequired) =>
        /\ lastCall.err = "TypeError"
        /\ lastCall.msg_cls = call.cls
        /\ Range(lastCall.msg_names) = RequiredNames(CalledCls)

\* the kinds of value a Layer argument may have
ValidKinds == {"int", "float", "ndarray", "tensor", "layer", "param"}

\* C4: a call that binds a value of another kind to an argument (a
\* Distribution instance included) fails with a TypeError and constructs
\* nothing; no constructed node has a Distribution among its args.
C4_InvalidArgRejected ==
    /\ (/\ Called
        /\ \E i \in DOMAIN CalledCls.default_args :
              RuleValue(CalledCls, call.args, call.kwargs, i).k \notin ValidKinds)
       => (lastCall.err = "TypeError" /\ nodes = <<>>)
    /\ \A n \in DOMAIN nodes : \A i \in DOMAIN nodes[n].args :
          nodes[n].args[i].val.k \in ValidKinds

\* a Distribution instance bound to the argument of a Layer is rejected
\* with the message naming that argument
C4_Witness ==
    /\ Called /\ call.cls = "Add" /\ Len(call.args) = 2
    /\ call.args[1].k = "layer" /\ call.args[2].k = "dist"
    /\ lastCall.err = "TypeError" /\ lastCall.why = "type"
    /\ lastCall.msg_arg = "b"

(***************************************************************************)
(* Parameters.  core.py reads from a Parameter argument its build outputs  *)
(* (built_obj, mean_obj) and three precomputed scalars (_log_loss,         *)
(* _mean_log_loss, _kl_loss), which the Parameter computes once during its *)
(* own build from its prior and posterior.  losses holds the values that   *)
(* computation yields for this Parameter.                                  *)
(***************************************************************************)
NewParameter(name, losses) ==
    [NewObj(LayerCls, <<>>, <<>>) EXCEPT
        !.kind = "param", !.cls = "Parameter", !.name = name,
        !.losses = losses]

\* the output of a build function: the sample or the mean output of node
\* id, built on the batch data (data stands for data and batch_shape)
Out(path, id, data) == [k |-> path, v |-> id, data |-> data]

\* a Parameter's own build: its sample and mean outputs and its losses.
\* builds counts the calls of a node's _build_recursively since the
\* outermost call began.
parameter_build(ns, id, data) ==
    [ns EXCEPT ![id].builds = @ + 1,
               ![id].built_obj = Out("sample", id, data),
               ![id].mean_obj = Out("mean", id, data),
               ![id].p_log_loss = ns[id].losses.log,
               ![id].p_mean_log_loss = ns[id].losses.mean_log,
               ![id].p_kl_loss = ns[id].losses.kl]

(***************************************************************************)
(* BaseLayer._build_recursively, on the object store ns (a sequence of     *)
(* nodes; V(kind, id) is a reference to node id).  The result is the       *)
(* store after the call and the error it raised.                           *)
(***************************************************************************)
\* a reference to the node at index id of the store
Ref(ns, id) == V(ns[id].kind, id)

\* the layer's own _build / _build_mean on its bound arguments
build_own(ns, id, data) == Out("sample", id, data)

build_mean_own(ns, id, data) == Out("mean", id, data)

\* _build and _build_mean are the subclass's TensorFlow code and may raise
\* on the tensors they are given.  hook tells what they do in the build
\* under way: "ok", "build" (_build raises) or "build_mean" (_build_mean
\* raises).
HookRaises(ns, id, which) == ns[id].hook = which

\* what one argument adds to the three sums of the layer holding it
LossOfArg_without_nested_sums(ns, arg) ==
    IF arg_is("tensor_like", arg) THEN NoLoss
    ELSE IF arg_is("layer", arg)
    THEN [log |-> ClassOf(ns[arg.v].cls).self_log,
          mean_log |-> ClassOf(ns[arg.v].cls).self_mean_log,
          kl |-> ClassOf(ns[arg.v].cls).self_kl]
    ELSE IF arg_is("parameter", arg)
    THEN [log |-> ns[arg.v].p_log_loss,
          mean_log |-> ns[arg.v].p_mean_log_loss,
          kl |-> ns[arg.v].p_kl_loss]
    ELSE NoLoss

LossOfArg(ns, arg) ==
    IF arg_is("tensor_like", arg) THEN NoLoss
    ELSE IF arg_is("layer", arg)
    THEN [log |-> ns[arg.v].samp_loss_sum + ClassOf(ns[arg.v].cls).self_log,
          mean_log |-> ns[arg.v].mean_loss_sum
                          + ClassOf(ns[arg.v].cls).self_mean_log,
          kl |-> ns[arg.v].kl_loss_sum + ClassOf(ns[arg.v].cls).self_kl]
    ELSE IF arg_is("parameter", arg)
    THEN [log |-> ns[arg.v].p_log_loss,
          mean_log |-> ns[arg.v].p_mean_log_loss,
          kl |-> ns[arg.v].p_kl_loss]
    ELSE NoLoss

\* the element of a one-element set.  Only({e(x) : x \in {v}}) is e(v) with
\* v computed once, however often e uses it.
Only(S) == CHOOSE x \in S : TRUE

RECURSIVE SumLosses(_, _, _)
\* the sums over the arguments i.. of node id, added to the sums the node
\* holds from an earlier build
SumLosses_from_previous_sums(ns, id, i) ==
    IF i > Len(ns[id].args)
    THEN [log |-> ns[id].samp_loss_sum, mean_log |-> ns[id].mean_loss_sum,
          kl |-> ns[id].kl_loss_sum]
    ELSE Only({[log |-> h.log + t.log, mean_log |-> h.mean_log + t.mean_log,
                kl |-> h.kl + t.kl] :
                  h \in {LossOfArg(ns, ns[id].args[i].val)},
                  t \in {SumLosses(ns, id, i + 1)}})

\* the sums over the arguments i.. of node id, in argument order
SumLosses(ns, id, i) ==
    IF i > Len(ns[id].args) THEN NoLoss
    ELSE Only({[log |-> h.log + t.log, mean_log |-> h.mean_log + t.mean_log,
                kl |-> h.kl + t.kl] :
                  h \in {LossOfArg(ns, ns[id].args[i].val)},
                  t \in {SumLosses(ns, id, i + 1)}})

\* the two paths crossed: built_args[name] = m, mean_args[name] = b
SetBuiltArg_crossed(ns, id, name, b, m) ==
    [ns EXCEPT ![id].built_args = Append(@, A(name, m)),
               ![id].mean_args = Append(@, A(name, b))]

\* built_args[name] = b, mean_args[name] = m
SetBuiltArg(ns, id, name, b, m) ==
    [ns EXCEPT ![id].built_args = Append(@, A(name, b)),
               ![id].mean_args = Append(@, A(name, m))]

RECURSIVE build_recursively(_, _, _)
RECURSIVE BuildArgs(_, _, _, _)
\* the loop over self.args that builds the arguments i..
BuildArgs(store, id, i, data) ==
    Only({
        IF i > Len(ns[id].args) THEN [ns |-> ns, err |-> "none"]
        ELSE LET name == ns[id].args[i].name
                 arg == ns[id].args[i].val
             IN  IF arg.k = "int"
                 THEN BuildArgs(SetBuiltArg(ns, id, name, V("float", arg.v),
                                            V("float", arg.v)), id, i + 1,
                                data)
                 ELSE IF arg_is("tensor_like", arg)
                 THEN BuildArgs(SetBuiltArg(ns, id, name, arg, arg), id, i + 1,
                                data)
                 ELSE IF arg_is("layer", arg) \/ arg_is("parameter", arg)
                 THEN Only({
                        IF r.err # "none" THEN r
                        ELSE BuildArgs(SetBuiltArg(r.ns, id, name,
                                                   r.ns[arg.v].built_obj,
                                                   r.ns[arg.v].mean_obj),
                                       id, i + 1, data) :
                          r \in {build_recursively(ns, arg.v, data)}})
                 ELSE BuildArgs(ns, id, i + 1, data) :
          ns \in {store}})

build_recursively(ns, id, data) ==
    IF ns[id].kind = "param"
    THEN [ns |-> parameter_build(ns, id, data), err |-> "none"]
    ELSE Only({
           IF a.err # "none" THEN a
           ELSE Only({
                  IF HookRaises(a.ns, id, "build")
                  THEN [ns |-> summed, err |-> "HookError"]
                  ELSE IF HookRaises(a.ns, id, "build_mean")
                  THEN [ns |-> [summed EXCEPT
                                  ![id].built_obj = build_own(a.ns, id, data)],
                        err |-> "HookError"]
                  ELSE [ns |-> [summed EXCEPT
                                  ![id].built_obj = build_own(a.ns, id, data),
                                  ![id].mean_obj = build_mean_own(a.ns, id, data)],
                        err |-> "none"] :
                    summed \in
                       {[a.ns EXCEPT
                           ![id].has_sums = TRUE,
                           ![id].samp_loss_sum = s.log,
                           ![id].mean_loss_sum = s.mean_log,
                           ![id].kl_loss_sum = s.kl] :
                          s \in {SumLosses(a.ns, id, 1)}}}) :
             a \in {BuildArgs([ns EXCEPT ![id].builds = @ + 1,
                                         ![id].built_args = <<>>,
                                         ![id].mean_args = <<>>], id, 1,
                              data)}})

RECURSIVE Below(_, _)
RECURSIVE BelowFrom(_, _, _)
\* the nodes below node id, one entry for every path that reaches them
BelowFrom(ns, id, i) ==
    IF i > Len(ns[id].args) THEN <<>>
    ELSE LET arg == ns[id].args[i].val IN
         (IF arg.k \in {"layer", "dist", "param"}
          THEN <<arg.v>> \o Below(ns, arg.v)
          ELSE <<>>) \o BelowFrom(ns, id, i + 1)

Below(ns, id) == BelowFrom(ns, id, 1)

\* the node a build was called on and the nodes below it
Reached(ns, r) == {r} \cup Range(Below(ns, r))

\* the store as an outermost call of _build_recursively on node id finds
\* it: no node it can reach was built by it
NoBuilds(ns, id) ==
    Only({[n \in DOMAIN ns |->
             IF n \in reached THEN [ns[n] EXCEPT !.builds = 0] ELSE ns[n]] :
            reached \in {Reached(ns, id)}})

\* node._build_recursively(data, batch_shape) called from outside the
\* recursion
build_outermost(ns, id, data) ==
    Only({build_recursively(fresh, id, data) :
            fresh \in {NoBuilds(ns, id)}})

\* BaseLayer._parameter_list: depth first, in argument order
RECURSIVE parameter_list(_, _)
RECURSIVE ParamsFrom(_, _, _)
ParamsFrom(ns, id, i) ==
    IF i > Len(ns[id].args) THEN <<>>
    ELSE LET arg == ns[id].args[i].val IN
         (IF arg.k \in {"layer", "dist"} THEN parameter_list(ns, arg.v)
          ELSE IF arg.k = "param" THEN <<arg.v>>
          ELSE <<>>) \o ParamsFrom(ns, id, i + 1)

\* the sequence without the repetitions of its elements
RECURSIVE Distinct(_)
Distinct(seq) ==
    IF seq = <<>> THEN <<>>
    ELSE LET t == Distinct(SubSeq(seq, 1, Len(seq) - 1))
             x == seq[Len(seq)]
         IN  IF x \in Range(t) THEN t ELSE Append(t, x)

\* a list that holds every Parameter once
parameter_list_without_duplicates(ns, id) == Distinct(ParamsFrom(ns, id, 1))

parameter_list(ns, id) == ParamsFrom(ns, id, 1)

(***************************************************************************)
(* Composing a graph and building it: nodes are constructed one by one,    *)
(* each Layer from numbers and from the nodes no Layer uses yet (one node  *)
(* may fill several arguments of a call), and the Layer constructed last   *)
(* (the root of the graph) may then be built recursively.                  *)
(***************************************************************************)
\* most nodes constructed
MaxNodes == 4

\* the Parameters the program constructs, in this order, with the losses
\* their builds yield
ParamInputs ==
    <<[name |-> "w", losses |-> [kl |-> 2, log |-> 7, mean_log |-> 11]],
      [name |-> "b", losses |-> [kl |-> 5, log |-> 13, mean_log |-> 17]],
      [name |-> "s", losses |-> [kl |-> 19, log |-> 23, mean_log |-> 29]]>>

NumParams(ns) == Cardinality({id \in DOMAIN ns : ns[id].kind = "param"})

\* the classes instantiated
GraphClasses == {LayerCls, AffineCls}

\* the nodes that are the argument of no node
Roots(ns) ==
    {id \in DOMAIN ns :
        \A n \in DOMAIN ns : \A i \in DOMAIN ns[n].args :
           ns[n].args[i].val # Ref(ns, id)}

\* the values passed to a constructor: a number or a node of the store
GraphValues(ns) == {V("int", 1)} \cup {Ref(ns, id) : id \in Roots(ns)}

Built(ns) == \E id \in DOMAIN ns : ns[id].built_obj # None

InitBuild ==
    /\ call = NoCall
    /\ nodes = <<>>
    /\ lastCall = NoResult
    /\ NoFit

\* p = Parameter(name=...)
ConstructParameter ==
    /\ Len(nodes) < MaxNodes
    /\ ~Built(nodes)
    /\ lastCall.op # "build"
    /\ NumParams(nodes) < Len(ParamInputs)
    /\ LET p == ParamInputs[NumParams(nodes) + 1] IN
          nodes' = Append(nodes, NewParameter(p.name, p.losses))
    /\ lastCall' = [op |-> "param"]
    /\ UNCHANGED <<call, fitvars>>

\* node = cls(*args), for the calls that construct a node (SpecCtor has the
\* calls that raise)
ConstructLayer ==
    /\ Len(nodes) < MaxNodes
    /\ ~Built(nodes)
    /\ lastCall.op # "build"
    /\ \E cls \in GraphClasses :
       \E args \in Tuples(GraphValues(nodes), Len(cls.default_args)) :
          LET r == LayerInit(cls, args, <<>>) IN
          /\ r.err = "none"
          /\ nodes' = Append(nodes, r.obj)
          /\ lastCall' = [op |-> "init", err |-> r.err, why |-> r.why,
                          msg_cls |-> r.msg_cls, msg_names |-> r.msg_names,
                          msg_arg |-> r.msg_arg]
    /\ UNCHANGED <<call, fitvars>>

\* the batches a build is called with
Batches == {1}

\* most nodes of a graph in which a build function raises or a build is
\* called on a node other than the last one
MaxProbeNodes == 2

\* what the build functions of the Layers do in one recursive build: all
\* return, or those of one Layer raise
HookOutcomes(ns) ==
    {[id |-> 0, hook |-> "ok"]}
       \cup {[id |-> n, hook |-> h] :
                n \in {m \in DOMAIN ns : /\ Len(ns) <= MaxProbeNodes
                                         /\ ns[m].kind \in {"layer", "dist"}},
                h \in {"build", "build_mean"}}

WithHook(ns, o) ==
    [n \in DOMAIN ns |-> [ns[n] EXCEPT !.hook = IF n = o.id THEN o.hook
                                                ELSE "ok"]]

\* the nodes _build_recursively is called on: the node constructed last,
\* and in a small graph any node
BuildTargets(ns) ==
    IF Len(ns) <= MaxProbeNodes THEN DOMAIN ns ELSE {Len(ns)} \ {0}

\* node._build_recursively(data, batch_shape); the calls that follow a
\* build that raised or a build of a node other than the last one are not
\* explored
Build ==
    /\ ~(lastCall.op = "build"
           /\ (lastCall.err # "none" \/ lastCall.id # Len(nodes)))
    /\ \E id \in BuildTargets(nodes) :
          /\ nodes[id].kind \in {"layer", "dist"}
          /\ \E o \in HookOutcomes(nodes), data \in Batches :
             \E r \in {build_outermost(WithHook(nodes, o), id, data)} :
                /\ nodes' = WithHook(r.ns, [id |-> 0, hook |-> "ok"])
                /\ lastCall' = [op |-> "build", id |-> id, err |-> r.err,
                                data |-> data,
                                at |-> IF r.err = "none" THEN 0 ELSE o.id]
    /\ UNCHANGED <<call, fitvars>>

NextBuild == ConstructParameter \/ ConstructLayer \/ Build

SpecBuild == InitBuild /\ [][NextBuild]_vars

(***************************************************************************)
(* Properties of the recursive build (checked under SpecBuild).            *)
(***************************************************************************)
\* node id is the root of a tree: no node below it is reached twice
IsTree(ns, id) == Len(Below(ns, id)) = Cardinality(Range(Below(ns, id)))

RECURSIVE SetSum(_, _)
SetSum(S, f) ==
    IF S = {} THEN 0
    ELSE LET x == CHOOSE x \in S : TRUE IN f[x] + SetSum(S \ {x}, f)

\* the KL value a node contributes by itself: a Parameter's known KL, a
\* Layer's own _kl_loss()
OwnKL(ns) ==
    [id \in DOMAIN ns |->
        IF ns[id].kind = "param" THEN ns[id].losses.kl
        ELSE ClassOf(ns[id].cls).self_kl]

MaxFits == 2

\* the largest number of epochs asked for
MaxEpochs == 2

\* the number of training rows in x and y
TrainRows == 2

\* np.nan, the content of a snapshot slot that was never written
NaN == -1

\* a Python str and a Python list
S(s) == [k |-> "str", s |-> s]

L(items) == [k |-> "list", items |-> items]

\* isinstance(x, int): a bool is an int too
IsInt(x) == x.k \in {"int", "bool"}

\* all([isinstance(e, str) for e in l])
AllStr(l) == \A i \in DOMAIN l.items : l.items[i].k = "str"

\* callable(x)
callable(x) == x.k = "callable"

\* bool(x) of the values a caller passes as metrics
Truthy(x) ==
    CASE x.k = "list" -> x.items # <<>>
      [] x.k = "str"  -> x.s # ""
      [] x.k = "none" -> FALSE
      [] OTHER        -> x.v # 0

\* the checks without the two on epochs
fit_validate_accepting_any_epochs(a) ==
    IF a.dtype.k # "DType" THEN "TypeError"
    ELSE IF ~IsInt(a.batch_size) THEN "TypeError"
    ELSE IF a.batch_size.v < 1 THEN "TypeError"
    ELSE IF ~callable(a.optimizer) THEN "TypeError"
    ELSE IF a.optimizer_kwargs.k # "dict" THEN "TypeError"
    ELSE IF a.learning_rate.k # "float" THEN "TypeError"
    ELSE IF a.learning_rate.v < 0 THEN "TypeError"
    ELSE IF a.verbose.k # "bool" THEN "TypeError"
    ELSE IF a.validation_split.k # "float" THEN "TypeError"
    ELSE IF a.validation_split.v < 0 \/ a.validation_split.v > 100
         THEN "TypeError"
    ELSE IF a.validation_shuffle.k # "bool" THEN "TypeError"
    ELSE IF a.shuffle.k # "bool" THEN "TypeError"
    ELSE IF a.record # None /\ a.record.k \notin {"str", "list"}
         THEN "TypeError"
    ELSE IF a.record.k = "list" /\ ~AllStr(a.record) THEN "TypeError"
    ELSE IF a.record_freq.k # "str" THEN "TypeError"
    ELSE IF a.record_freq.s \notin {"batch", "epoch"} THEN "ValueError"
    ELSE "none"

\* the input checks of fit(), in the order of the code: the name of the
\* exception raised, or "none".  learning_rate is in thousandths and
\* validation_split in hundredths.
fit_validate(a) ==
    IF a.dtype.k # "DType" THEN "TypeError"
    ELSE IF ~IsInt(a.batch_size) THEN "TypeError"
    ELSE IF a.batch_size.v < 1 THEN "TypeError"
    ELSE IF ~IsInt(a.epochs) THEN "TypeError"
    ELSE IF a.epochs.v < 0 THEN "TypeError"
    ELSE IF ~callable(a.optimizer) THEN "TypeError"
    ELSE IF a.optimizer_kwargs.k # "dict" THEN "TypeError"
    ELSE IF a.learning_rate.k # "float" THEN "TypeError"
    ELSE IF a.learning_rate.v < 0 THEN "TypeError"
    ELSE IF a.verbose.k # "bool" THEN "TypeError"
    ELSE IF a.validation_split.k # "float" THEN "TypeError"
    ELSE IF a.validation_split.v < 0 \/ a.validation_split.v > 100
         THEN "TypeError"
    ELSE IF a.validation_shuffle.k # "bool" THEN "TypeError"
    ELSE IF a.shuffle.k # "bool" THEN "TypeError"
    ELSE IF a.record # None /\ a.record.k \notin {"str", "list"}
         THEN "TypeError"
    ELSE IF a.record.k = "list" /\ ~AllStr(a.record) THEN "TypeError"
    ELSE IF a.record_freq.k # "str" THEN "TypeError"
    ELSE IF a.record_freq.s \notin {"batch", "epoch"} THEN "ValueError"
    ELSE "none"

\* test_train_split: the number of training rows left by the split
test_train_split(rows, validation_split) ==
    rows - (rows * validation_split) \div 100

\* the names of the Parameters in ps
ParamNames(ns, ps) == {ns[ps[i]].name : i \in DOMAIN ps}

\* init_records without the check of the names
init_records_without_name_check(ns, ps, to_record, record_freq, epochs, n_batch) ==
    LET Nrecords == IF record_freq = "batch" THEN epochs * n_batch
                    ELSE epochs
    IN  [err |-> "none",
         records |->
            [n_records |-> Nrecords,
             bufs |-> [n \in ParamNames(ns, ps) \cap Range(to_record) |->
                          [i \in 1..Nrecords |-> NaN]]]]

\* init_records: the snapshot buffers, one per recorded Parameter (it
\* stands for the buffers of all its posterior arguments, which are
\* allocated and written together), Nrecords slots of NaN each
init_records(ns, ps, to_record, record_freq, epochs, n_batch) ==
    LET Nrecords == IF record_freq = "batch" THEN epochs * n_batch
                    ELSE epochs
    IN  IF \E i \in DOMAIN to_record : to_record[i] \notin ParamNames(ns, ps)
        THEN [err |-> "ValueError", records |-> NoRecords]
        ELSE [err |-> "none",
              records |->
                 [n_records |-> Nrecords,
                  bufs |-> [n \in ParamNames(ns, ps) \cap Range(to_record) |->
                               [i \in 1..Nrecords |-> NaN]]]]

\* what the session yields for the posterior arguments of Parameter id
\* after the training steps taken: a value of its own for every Parameter
\* and every number of steps
posterior_value(ns, id, steps) == steps * (Len(ns) + 1) + id

\* every slot of every buffer gets the value
save_records_filling_buffer(ns, ps, records, ix, steps) ==
    [records EXCEPT
        !.bufs = [n \in DOMAIN records.bufs |->
                     [i \in DOMAIN records.bufs[n] |-> steps]]]

\* the loop of save_records over the Parameters i.. of the list
RECURSIVE SaveFrom(_, _, _, _, _, _)
SaveFrom(ns, ps, i, records, ix, steps) ==
    IF i > Len(ps) THEN records
    ELSE SaveFrom(ns, ps, i + 1,
                  IF ns[ps[i]].name \in DOMAIN records.bufs
                  THEN [records EXCEPT
                          !.bufs[ns[ps[i]].name][ix + 1] =
                              posterior_value(ns, ps[i], steps)]
                  ELSE records,
                  ix, steps)

\* save_records(ix): the current posterior value of every Parameter of the
\* list whose name is recorded goes to slot ix of the buffer of that name
save_records(ns, ps, records, ix, steps) ==
    SaveFrom(ns, ps, 1, records, ix, steps)

\* the batch index alone
BatchIndex_within_epoch(epoch, n_batch, batch) == batch

\* the snapshot index of a batch: epoch*n_batch + batch
BatchIndex(epoch, n_batch, batch) == epoch * n_batch + batch

\* the record argument as the list of names fit() turns it into
RecordList(ns, ps, record) ==
    IF record.k = "str"
    THEN IF record.s = "all" THEN [i \in DOMAIN ps |-> ns[ps[i]].name]
         ELSE <<record.s>>
    ELSE [i \in DOMAIN record.items |-> record.items[i].s]

\* N/batch_size rounded down
NBatch_rounding_down(N, batch_size) == N \div batch_size

\* int(np.ceil(N/batch_size))
NBatch(N, batch_size) == (N + batch_size - 1) \div batch_size

\* BaseLayer._input_list: the Input layers below node id, depth first
RECURSIVE input_list(_, _)
RECURSIVE InputsFrom(_, _, _)
InputsFrom(ns, id, i) ==
    IF i > Len(ns[id].args) THEN <<>>
    ELSE LET arg == ns[id].args[i].val IN
         (IF arg.k \in {"layer", "dist"} /\ ns[arg.v].cls = "Input"
          THEN <<arg.v>>
          ELSE IF arg.k \in {"layer", "dist"} THEN input_list(ns, arg.v)
          ELSE <<>>) \o InputsFrom(ns, id, i + 1)

input_list(ns, id) == InputsFrom(ns, id, 1)

\* the positions (counted from 0) of the name in the column list
Positions(t_str, col_list) ==
    {ix \in 0..(Len(col_list) - 1) : col_list[ix + 1] = t_str}

Max(Q) == CHOOSE x \in Q : \A y \in Q : y <= x

Min(Q) == CHOOSE x \in Q : \A y \in Q : x <= y

\* the position of the name counted from 1
str2int_counting_from_one(t_str, col_list) ==
    IF Positions(t_str, col_list) = {}
    THEN [err |-> "RuntimeError", val |-> None]
    ELSE [err |-> "none",
          val |-> V("int", Max(Positions(t_str, col_list)) + 1)]

\* str2int(t_str, col_list): the loop keeps the last position that matches
str2int(t_str, col_list) ==
    IF Positions(t_str, col_list) = {}
    THEN [err |-> "RuntimeError", val |-> None]
    ELSE [err |-> "none", val |-> V("int", Max(Positions(t_str, col_list)))]

\* the list branch of assign_input_info: the elements of t_col resolved up
\* to the first one that raises
ResolveList(t_col, cols) ==
    LET one(col) == IF col.k = "str" THEN str2int(col.s, cols)
                    ELSE IF IsInt(col) THEN [err |-> "none", val |-> col]
                    ELSE [err |-> "RuntimeError", val |-> None]
        bad == {i \in DOMAIN t_col.items : one(t_col.items[i]).err # "none"}
    IN  IF bad # {} THEN [err |-> one(t_col.items[Min(bad)]).err, val |-> None]
        ELSE [err |-> "none",
              val |-> L([i \in DOMAIN t_col.items |-> one(t_col.items[i]).val])]

\* one pass of the loop of assign_input_info over the Input tin; x_data has
\* one column for each name of cols
AssignInput(ns, tin, cols) ==
    LET t_col == Get(ns[tin].kwargs, "cols") IN
    IF IsInt(t_col)
    THEN IF TupleIndexOk(cols, t_col.v)
         THEN [ns |-> [ns EXCEPT ![tin].int_cols = t_col,
                                 ![tin].nunique = V("nunique", t_col.v)],
               err |-> "none"]
         ELSE [ns |-> [ns EXCEPT ![tin].int_cols = t_col],
               err |-> "IndexError"]
    ELSE IF t_col.k = "str"
    THEN LET t == str2int(t_col.s, cols) IN
         IF t.err # "none" THEN [ns |-> ns, err |-> t.err]
         ELSE [ns |-> [ns EXCEPT ![tin].int_cols = t.val,
                                 ![tin].nunique = V("nunique", t.val.v)],
               err |-> "none"]
    ELSE IF t_col.k = "list"
    THEN LET t == ResolveList(t_col, cols) IN
         IF t.err # "none" THEN [ns |-> ns, err |-> t.err]
         ELSE [ns |-> [ns EXCEPT ![tin].int_cols = t.val], err |-> "none"]
    ELSE [ns |-> ns, err |-> "none"]

\* assign_input_info(cols, x_data) on the Inputs i.. of the list
RECURSIVE AssignInputs(_, _, _, _)
AssignInputs(ns, inputs, i, cols) ==
    IF i > Len(inputs) THEN [ns |-> ns, err |-> "none"]
    ELSE Only({IF r.err # "none" THEN r
               ELSE AssignInputs(r.ns, inputs, i + 1, cols) :
                 r \in {AssignInput(ns, inputs[i], cols)}})

assign_input_info(ns, r, cols) == AssignInputs(ns, input_list(ns, r), 1, cols)

\* a fit() that clears is_fit when it raises
FitOutcome_clearing_flag(ns, mdl, sess, err, stage, n_batch) ==
    [nodes |-> IF err = "none" THEN ns
               ELSE [id \in DOMAIN ns |-> [ns[id] EXCEPT !.is_fit = FALSE]],
     model |-> mdl, sessions |-> sess, err |-> err,
     stage |-> stage, n_batch |-> n_batch]

\* how the part of fit() before its loop ends: the store, the training
\* state and the sessions it leaves, the error it raised and where
FitOutcome(ns, mdl, sess, err, stage, n_batch) ==
    [nodes |-> ns, model |-> mdl, sessions |-> sess, err |-> err,
     stage |-> stage, n_batch |-> n_batch]

\* fit() from the session to the flag (lines 1057-1078), on the built store
\* ns with the Parameters ps
fit_session(ns, mdl, sess, r, k, a, ps) ==
    LET N   == test_train_split(TrainRows, a.validation_split.v)
        nb  == NBatch(N, a.batch_size.v)
        m3  == [mdl EXCEPT !.session = k]
        ns3 == [id \in DOMAIN ns |->
                  IF id \in Range(ps) THEN [ns[id] EXCEPT !.session = k]
                  ELSE ns[id]]
    IN  IF a.record = None
        THEN FitOutcome([ns3 EXCEPT ![r].is_fit = TRUE], m3, sess \cup {k},
                        "none", "loop", nb)
        ELSE Only({
               IF ir.err # "none"
               THEN FitOutcome(ns3, m3, sess \cup {k}, ir.err, "records", nb)
               ELSE FitOutcome([ns3 EXCEPT ![r].is_fit = TRUE],
                               [m3 EXCEPT !.has_records = TRUE,
                                          !.records = ir.records],
                               sess \cup {k}, "none", "loop", nb) :
                 ir \in {init_records(ns, ps,
                                      RecordList(ns, ps, a.record),
                                      a.record_freq.s, a.epochs.v, nb)}})

\* the same without the check for an empty parameter list
fit_setup_without_parameter_check(ns, mdl, sess, r, k, a) ==
    LET m1 == [mdl EXCEPT !.train = k, !.ph = k] IN
    Only({
      IF c.err # "none" THEN FitOutcome(c.ns, m1, sess, c.err, "columns", 0)
      ELSE Only({
      IF b.err # "none" THEN FitOutcome(b.ns, m1, sess, b.err, "build", 0)
      ELSE Only({
             fit_session(ns2,
                         [m1 EXCEPT !.has_parameters = TRUE,
                                    !.parameters = ps],
                         sess, r, k, a, ps) :
               ns2 \in {[b.ns EXCEPT
                          ![r].log_loss =
                              b.ns[r].samp_loss_sum
                                 + ClassOf(b.ns[r].cls).self_log]},
               ps \in {parameter_list(b.ns, r)}}) :
        b \in {build_outermost(c.ns, r, k)}}) :
        c \in {assign_input_info(ns, r, a.x_columns)}})

\* what fit() does between its input checks and its loop, on the store ns,
\* the training state mdl of root r and the sessions sess; k identifies the
\* placeholders and the session this call creates.  A raise keeps what was
\* assigned before it.
fit_setup(ns, mdl, sess, r, k, a) ==
    LET m1 == [mdl EXCEPT !.train = k, !.ph = k] IN
    Only({
      IF c.err # "none" THEN FitOutcome(c.ns, m1, sess, c.err, "columns", 0)
      ELSE Only({
      IF b.err # "none" THEN FitOutcome(b.ns, m1, sess, b.err, "build", 0)
      ELSE Only({
             IF ps = <<>>
             THEN FitOutcome(ns2, [m1 EXCEPT !.has_parameters = TRUE],
                             sess, "RuntimeError", "parameters", 0)
             ELSE fit_session(ns2,
                              [m1 EXCEPT !.has_parameters = TRUE,
                                         !.parameters = ps],
                              sess, r, k, a, ps) :
               ns2 \in {[b.ns EXCEPT
                          ![r].log_loss =
                              b.ns[r].samp_loss_sum
                                 + ClassOf(b.ns[r].cls).self_log]},
               ps \in {parameter_list(b.ns, r)}}) :
        b \in {build_outermost(c.ns, r, k)}}) :
        c \in {assign_input_info(ns, r, a.x_columns)}})

\* BaseDistribution.metrics(metric_list, x, y, data) up to its first raise
metrics(is_fit, metric_list, x, y, data) ==
    IF metric_list.k \notin {"str", "list"} THEN "ValueError"
    ELSE IF metric_list.k = "list" /\ ~AllStr(metric_list) THEN "ValueError"
    ELSE IF ~is_fit THEN "RuntimeError"
    ELSE "none"

\* the diagnostics whose first statement is self._ensure_is_fit() and that
\* check an argument of theirs after it
GuardThenCheck ==
    {"predictive_distribution", "posterior_mean", "posterior_sample",
     "prior_sample", "predictive_prc", "log_prob_by", "prob_by", "cdf_by",
     "coverage_by"}

\* those whose first statement is self._ensure_is_fit() and that check
\* nothing of their own
GuardOnly ==
    {"predict", "log_prob", "prob", "cdf", "confidence_intervals",
     "pred_dist_coverage", "calibration_curve"}

\* those whose body is a bare pass
Stubs == {"r_squared", "residuals"}

DiagMethods ==
    GuardThenCheck \cup GuardOnly \cup Stubs
       \cup {"metrics", "pred_dist_covered"}

\* the diagnostics that check the type of an argument
Checking == GuardThenCheck \cup {"metrics", "pred_dist_covered"}

\* _ensure_is_fit
ensure_is_fit(is_fit) == IF is_fit THEN "none" ELSE "RuntimeError"

\* how a call of diagnostic method ends on a model whose flag is is_fit;
\* bad: the argument the method checks has a wrong type
diagnostic(method, is_fit, bad) ==
    CASE method \in GuardThenCheck ->
            IF ensure_is_fit(is_fit) # "none" THEN ensure_is_fit(is_fit)
            ELSE IF bad THEN "TypeError" ELSE "none"
      [] method \in GuardOnly -> ensure_is_fit(is_fit)
      [] method \in Stubs -> "none"
      [] method = "metrics" ->
            metrics(is_fit, IF bad THEN V("int", 5) ELSE L(<<S("mse")>>),
                    None, None, None)
      [] method = "pred_dist_covered" ->
            IF bad THEN "TypeError" ELSE ensure_is_fit(is_fit)

(***************************************************************************)
(* The calls made: a model is composed, then fit() and the diagnostics are *)
(* called on it in any order, fit() with every combination of epochs,      *)
(* batch size, record and record_freq, with the metrics values below, and  *)
(* with every argument of a wrong type or out of range in turn.            *)
(***************************************************************************)
Make(ns, cls, args) == Append(ns, LayerInit(cls, args, <<>>).obj)

\* Input(cols=cols)
MakeInput(ns, cols) ==
    Append(ns, LayerInit(InputCls, <<>>, [c \in {"cols"} |-> cols]).obj)

Param(ns, i) ==
    Append(ns, NewParameter(ParamInputs[i].name, ParamInputs[i].losses))

\* w = Parameter('w'); b = Parameter('b'); Normal((Input() + w) + b, 1.0)
LinearModel ==
    LET n1 == Param(<<>>, 1)
        n2 == Param(n1, 2)
        n3 == Make(n2, InputCls, <<>>)
        n4 == Make(n3, AddCls, <<Ref(n3, 3), Ref(n3, 1)>>)
        n5 == Make(n4, AddCls, <<Ref(n4, 4), Ref(n4, 2)>>)
    IN  Make(n5, NormalCls, <<Ref(n5, 5), V("float", 1)>>)

\* Normal(Input(), 1.0): a model without a Parameter
NoParameterModel ==
    LET n1 == Make(<<>>, InputCls, <<>>)
    IN  Make(n1, NormalCls, <<Ref(n1, 1), V("float", 1)>>)

\* w = Parameter('w')
\* Normal(Input(cols='b') + (Input(cols=['b', 0, 'a']) + w), 1.0)
ColumnModel ==
    LET n1 == Param(<<>>, 1)
        n2 == MakeInput(n1, S("b"))
        n3 == MakeInput(n2, L(<<S("b"), V("int", 0), S("a")>>))
        n4 == Make(n3, AddCls, <<Ref(n3, 3), Ref(n3, 1)>>)
        n5 == Make(n4, AddCls, <<Ref(n4, 2), Ref(n4, 4)>>)
    IN  Make(n5, NormalCls, <<Ref(n5, 5), V("float", 1)>>)

\* w = Parameter('w'); Normal(Input(cols=['a', 1.5]) + w, 1.0)
BadColumnModel ==
    LET n1 == Param(<<>>, 1)
        n2 == MakeInput(n1, L(<<S("a"), V("float", 15)>>))
        n3 == Make(n2, AddCls, <<Ref(n2, 2), Ref(n2, 1)>>)
    IN  Make(n3, NormalCls, <<Ref(n3, 3), V("float", 1)>>)

Models == {LinearModel, NoParameterModel, ColumnModel, BadColumnModel}

\* fit(x, y) with every default but epochs; x is a DataFrame of the two
\* columns 'a' and 'b'
Defaults ==
    [dtype |-> V("DType", 0), batch_size |-> V("int", 1),
     epochs |-> V("int", 1), optimizer |-> V("callable", 0),
     optimizer_kwargs |-> V("dict", 0), learning_rate |-> V("float", 10),
     metrics |-> L(<<>>), verbose |-> V("bool", 1),
     validation_split |-> V("float", 0), validation_shuffle |-> V("bool", 1),
     shuffle |-> V("bool", 1), record |-> None, record_freq |-> S("batch"),
     x_columns |-> <<"a", "b">>]

RecordValues ==
    {None, S("all"), S("w"), L(<<S("b"), S("w")>>), S("z"),
     L(<<S("w"), S("z")>>)}

MetricsValues ==
    {L(<<>>), L(<<S("mse")>>), S("mse"), V("int", 42), L(<<S("bogus")>>),
     L(<<V("int", 1)>>)}

LoopArgs ==
    {[Defaults EXCEPT !.epochs = V("int", e), !.batch_size = V("int", bs),
                      !.record = r, !.record_freq = S(f)] :
        e \in 0..MaxEpochs, bs \in 1..(TrainRows + 1), r \in RecordValues,
        f \in {"batch", "epoch"}}

MetricsArgs ==
    {[Defaults EXCEPT !.epochs = V("int", e), !.metrics = m, !.record = r,
                      !.record_freq = S("epoch")] :
        e \in 0..MaxEpochs, m \in MetricsValues, r \in {None, S("all")}}

InvalidArgs ==
    {[Defaults EXCEPT !.dtype = S("float32")],
     [Defaults EXCEPT !.batch_size = V("float", 1)],
     [Defaults EXCEPT !.batch_size = V("int", 0)],
     [Defaults EXCEPT !.epochs = V("float", 1)],
     [Defaults EXCEPT !.epochs = V("int", -1)],
     [Defaults EXCEPT !.optimizer = V("int", 0)],
     [Defaults EXCEPT !.optimizer_kwargs = L(<<>>)],
     [Defaults EXCEPT !.learning_rate = V("int", 1)],
     [Defaults EXCEPT !.learning_rate = V("float", -1)],
     [Defaults EXCEPT !.verbose = V("int", 1)],
     [Defaults EXCEPT !.validation_split = V("int", 0)],
     [Defaults EXCEPT !.validation_split = V("float", -10)],
     [Defaults EXCEPT !.validation_split = V("float", 110)],
     [Defaults EXCEPT !.validation_shuffle = V("int", 0)],
     [Defaults EXCEPT !.shuffle = V("int", 0)],
     [Defaults EXCEPT !.record = V("int", 1)],
     [Defaults EXCEPT !.record = L(<<V("int", 1)>>)],
     [Defaults EXCEPT !.record_freq = V("int", 1)],
     [Defaults EXCEPT !.record_freq = S("step")],
     [Defaults EXCEPT !.epochs = V("int", -1), !.record_freq = S("step")]}

\* x with its columns swapped, and without one of them
ColumnArgs ==
    {[Defaults EXCEPT !.x_columns = c] : c \in {<<"b", "a">>, <<"b">>, <<"a">>}}

FitArgs == LoopArgs \cup MetricsArgs \cup ColumnArgs \cup InvalidArgs

\* an Input of the model takes its columns by name
NamesColumns(ns) ==
    \E n \in DOMAIN ns :
       /\ ns[n].cls = "Input"
       /\ Get(ns[n].kwargs, "cols").k \in {"str", "list"}

\* the fit() calls made on a model: one whose Inputs take columns by name
\* is fit on every layout of x, with and without records, and with every
\* invalid argument; the others are fit with every value of the other
\* arguments too
FitArgsOn(ns) ==
    IF NamesColumns(ns)
    THEN ColumnArgs \cup {Defaults, [Defaults EXCEPT !.record = S("all")]}
            \cup InvalidArgs
    ELSE FitArgs

Init ==
    /\ call = NoCall
    /\ \E m \in Models : nodes = m /\ root = Len(m)
    /\ lastCall = NoResult
    /\ model = NoModel
    /\ sessions = {}
    /\ fit = Idle
    /\ history = NoHistory

\* the last call was a diagnostic or a fit() that failed its input checks
Probed ==
    \/ lastCall.op = "diag"
    \/ lastCall.op = "fit" /\ lastCall.stage = "validate"

\* model.fit(x, y, **a) up to the loop.  The calls that follow a diagnostic
\* or a rejected fit() are not explored: they are the calls of the state
\* that call was made in.
FitCall ==
    /\ fit.pc = "idle"
    /\ ~Probed
    /\ \E a \in FitArgsOn(nodes) :
          IF fit_validate(a) # "none"
          THEN /\ lastCall' = [op |-> "fit", err |-> fit_validate(a),
                               stage |-> "validate", args |-> a]
               /\ UNCHANGED <<nodes, model, sessions, fit, history>>
          ELSE /\ history.calls < MaxFits
               /\ \E r \in {fit_setup(nodes, model, sessions, root,
                                        history.calls + 1, a)} :
                      /\ nodes' = r.nodes
                      /\ model' = r.model
                      /\ sessions' = r.sessions
                      /\ history' = [history EXCEPT !.calls = @ + 1]
                      /\ IF r.err # "none"
                         THEN /\ fit' = Idle
                              /\ lastCall' = [op |-> "fit", err |-> r.err,
                                              stage |-> r.stage,
                                              record |-> a.record,
                                              x_columns |-> a.x_columns]
                         ELSE /\ fit' = [pc |-> "loop", args |-> a,
                                         epoch |-> 0, batch |-> 0,
                                         n_batch |-> r.n_batch, steps |-> 0]
                              /\ lastCall' = [op |-> "fit", err |-> "pending",
                                              stage |-> "loop"]
    /\ UNCHANGED <<call, root>>

\* a pass of the batch loop that goes on two batches further
FitBatch_skipping_a_batch ==
    /\ fit.pc = "loop"
    /\ fit.epoch < fit.args.epochs.v
    /\ fit.batch < fit.n_batch
    /\ fit' = [fit EXCEPT !.steps = @ + 1,
                       !.batch = IF @ + 2 <= fit.n_batch THEN @ + 2
                                 ELSE @ + 1]
    /\ model' =
          IF fit.args.record # None /\ fit.args.record_freq.s = "batch"
          THEN [model EXCEPT
                  !.records = save_records(nodes, model.parameters, @,
                                 BatchIndex(fit.epoch, fit.n_batch,
                                            fit.batch),
                                 fit.steps + 1)]
          ELSE model
    /\ UNCHANGED <<call, nodes, lastCall, root, sessions, history>>

\* one pass of the batch loop: a training step, then the per-batch snapshot
FitBatch ==
    /\ fit.pc = "loop"
    /\ fit.epoch < fit.args.epochs.v
    /\ fit.batch < fit.n_batch
    /\ fit' = [fit EXCEPT !.steps = @ + 1, !.batch = @ + 1]
    /\ model' =
          IF fit.args.record # None /\ fit.args.record_freq.s = "batch"
          THEN [model EXCEPT
                  !.records = save_records(nodes, model.parameters, @,
                                 BatchIndex(fit.epoch, fit.n_batch,
                                            fit.batch),
                                 fit.steps + 1)]
          ELSE model
    /\ UNCHANGED <<call, nodes, lastCall, root, sessions, history>>

\* the training step of a batch raises in the backend (a non-finite loss,
\* an exhausted resource): fit() ends there with that error
FitBatchRaise ==
    /\ fit.pc = "loop"
    /\ fit.epoch < fit.args.epochs.v
    /\ fit.batch < fit.n_batch
    /\ fit' = Idle
    /\ lastCall' = [op |-> "fit", err |-> "OpError", stage |-> "train"]
    /\ UNCHANGED <<call, nodes, root, model, sessions, history>>

\* the end of an epoch: the per-epoch snapshot, then the metrics
FitEpochEnd ==
    /\ fit.pc = "loop"
    /\ fit.epoch < fit.args.epochs.v
    /\ fit.batch = fit.n_batch
    /\ model' =
          IF fit.args.record # None /\ fit.args.record_freq.s = "epoch"
          THEN [model EXCEPT
                  !.records = save_records(nodes, model.parameters, @,
                                           fit.epoch, fit.steps)]
          ELSE model
    /\ LET md == IF Truthy(fit.args.metrics)
                 THEN metrics(nodes[root].is_fit, V("ndarray", 0),
                              V("ndarray", 0), fit.args.metrics, None)
                 ELSE "none"
       IN  IF md # "none"
           THEN /\ fit' = Idle
                /\ lastCall' = [op |-> "fit", err |-> md,
                                stage |-> "metrics",
                                metrics |-> fit.args.metrics]
           ELSE /\ fit' = [fit EXCEPT !.epoch = @ + 1, !.batch = 0]
                /\ UNCHANGED lastCall
    /\ UNCHANGED <<call, nodes, root, sessions, history>>

\* the loop is over: fit() returns
FitReturn ==
    /\ fit.pc = "loop"
    /\ fit.epoch >= fit.args.epochs.v
    /\ fit' = Idle
    /\ lastCall' = [op |-> "fit", err |-> "none", stage |-> "done"]
    /\ history' = [history EXCEPT !.returned = @ + 1]
    /\ UNCHANGED <<call, nodes, root, model, sessions>>

\* model.<method>(...) for a diagnostic method
Diagnostic ==
    /\ fit.pc = "idle"
    /\ ~Probed
    /\ \E method \in DiagMethods :
       \E bad \in (IF method \in Checking THEN BOOLEAN ELSE {FALSE}) :
          lastCall' = [op |-> "diag", method |-> method, bad |-> bad,
                       is_fit |-> nodes[root].is_fit,
                       err |-> diagnostic(method, nodes[root].is_fit, bad)]
    /\ UNCHANGED <<call, nodes, root, model, sessions, fit, history>>

Next ==
    \/ FitCall
    \/ FitBatch
    \/ FitBatchRaise
    \/ FitEpochEnd
    \/ FitReturn
    \/ Diagnostic

Spec == Init /\ [][Next]_vars

(***************************************************************************)
(* Properties of fit() and of the diagnostics (checked under Spec).        *)
(***************************************************************************)
\* C6: as long as no fit() call has returned, is_fit is false whenever no
\* fit() is running: a fit() that raises, at whatever point, leaves the
\* flag false.
C6_NotFitUntilFitReturns ==
    (fit.pc = "idle" /\ history.returned = 0) => ~nodes[root].is_fit

\* C7: a diagnostic called on a model whose is_fit is false raises the
\* RuntimeError of the not-fit guard, whatever its arguments, and neither
\* another error nor a return.
C7_DiagnosticsGuardFirst ==
    (lastCall.op = "diag" /\ ~lastCall.is_fit) =>
        lastCall.err = "RuntimeError"

\* an argument of fit() other than metrics has a wrong type or is out of
\* range
WrongFitArgs(a) ==
    \/ a.dtype.k # "DType"
    \/ a.batch_size.k # "int" \/ a.batch_size.v < 1
    \/ a.epochs.k # "int" \/ a.epochs.v < 0
    \/ a.optimizer.k # "callable"
    \/ a.optimizer_kwargs.k # "dict"
    \/ a.learning_rate.k # "float" \/ a.learning_rate.v < 0
    \/ a.verbose.k # "bool"
    \/ a.validation_split.k # "float"
    \/ a.validation_split.v < 0 \/ a.validation_split.v > 100
    \/ a.validation_shuffle.k # "bool"
    \/ a.shuffle.k # "bool"
    \/ ~(\/ a.record = None
         \/ a.record.k = "str"
         \/ a.record.k = "list" /\ AllStr(a.record))
    \/ a.record_freq.k # "str"
    \/ a.record_freq.s \notin {"batch", "epoch"}

\* this step is a call of fit() with arguments a: one that was rejected, or
\* one that went on to the loop
FitCalledWith(a) ==
    \/ lastCall'.op = "fit" /\ "args" \in DOMAIN lastCall'
          /\ lastCall'.args = a
    \/ fit.pc = "idle" /\ fit'.pc = "loop" /\ fit'.args = a

\* the fit() calls made with an argument of a wrong type or out of range
RejectedArgs == {a \in FitArgs : WrongFitArgs(a)}

MetricNames == {"acc", "accuracy", "mse", "sse", "mae"}

\* a list of metric names
ValidMetrics(m) ==
    /\ m.k = "list"
    /\ \A i \in DOMAIN m.items :
          m.items[i].k = "str" /\ m.items[i].s \in MetricNames

\* C9: no fit() gets past its input validation with a metrics value that
\* is not a list of names of the metric set.
C9_MetricsValidated ==
    fit.pc = "loop" => ValidMetrics(fit.args.metrics)

\* C10: when fit() evaluates a list of valid metric names at the end of an
\* epoch, the evaluation does not raise: fit() goes on with the next epoch.
C10_MetricsEvaluatedEachEpoch ==
    (lastCall.op = "fit" /\ lastCall.stage = "metrics"
        /\ ValidMetrics(lastCall.metrics)) =>
       lastCall.err = "none"

\* the least number of batches of size batch_size that hold n rows
BatchesFor(n, batch_size) ==
    CHOOSE b \in 0..n : b * batch_size >= n /\ (b - 1) * batch_size < n

\* the loop of fit() is over: the call is about to return
LoopDone == fit.pc = "loop" /\ fit.epoch >= fit.args.epochs.v

\* C11: when the loop of a fit() is over, it has made exactly
\* epochs x ceil(N / batch_size) optimizer steps (none for epochs = 0) and
\* is_fit is true; is_fit is true after the call has returned, too.
C11_StepsOfAFit ==
    /\ LoopDone =>
          /\ fit.steps = fit.args.epochs.v
                            * BatchesFor(TrainRows, fit.args.batch_size.v)
          /\ nodes[root].is_fit
    /\ (lastCall.op = "fit" /\ lastCall.err = "none") => nodes[root].is_fit

\* a fit() of more than one epoch with a batch size that does not divide
\* the number of rows is over
C11_Witness ==
    /\ LoopDone
    /\ fit.args.epochs.v > 1
    /\ TrainRows % fit.args.batch_size.v # 0
    /\ fit.steps = fit.args.epochs.v
    /\ nodes[root].is_fit

\* the tree below node id holds no Parameter
NoParameters(ns, id) ==
    \A n \in Range(Below(ns, id)) : ns[n].kind # "param"

Recording == fit.pc = "loop" /\ fit.args.record # None

\* the number of snapshots the running fit() is to take
SnapshotCount ==
    IF fit.args.record_freq.s = "batch"
    THEN fit.args.epochs.v * BatchesFor(TrainRows, fit.args.batch_size.v)
    ELSE fit.args.epochs.v

\* the loop is inside an epoch: its next step trains on a batch
InEpoch == fit.batch < BatchesFor(TrainRows, fit.args.batch_size.v)

\* the slot (counted from 0) the next step of the loop may write: that of
\* its batch when recording per batch, that of the epoch it ends when
\* recording per epoch, and none (-1) otherwise
SlotOfStep ==
    IF InEpoch /\ fit.args.record_freq.s = "batch"
    THEN fit.epoch * BatchesFor(TrainRows, fit.args.batch_size.v) + fit.batch
    ELSE IF ~InEpoch /\ fit.args.record_freq.s = "epoch" THEN fit.epoch
    ELSE -1

\* slot i (counted from 1) of the buffer of n holds another value after the
\* step
Written(n, i) == model'.records.bufs[n][i] # model.records.bufs[n][i]

\* C13: while a fit() records, every buffer has exactly epochs x n_batch
\* slots (per batch) or epochs slots (per epoch); a step of the loop writes
\* no slot but the one of its batch or epoch, and only if that slot was
\* never written; and when the loop is over no slot holds NaN.
C13_RecordsComplete ==
    [][/\ Recording =>
             /\ model.has_records
             /\ model.records.n_records = SnapshotCount
             /\ \A n \in DOMAIN model.records.bufs :
                   /\ DOMAIN model.records.bufs[n] = 1..SnapshotCount
                   /\ LoopDone =>
                         \A i \in 1..SnapshotCount :
                            model.records.bufs[n][i] # NaN
       /\ Recording =>
             \A n \in DOMAIN model.records.bufs :
                \A i \in 1..SnapshotCount :
                   Written(n, i) =>
                      /\ model.records.bufs[n][i] = NaN
                      /\ i = SlotOfStep + 1]_vars

\* a fit() of two epochs that recorded two Parameters per batch is over
C13_Witness ==
    /\ LoopDone
    /\ fit.args.record # None
    /\ fit.args.record_freq.s = "batch"
    /\ fit.args.epochs.v = 2
    /\ model.records.n_records = 2 * fit.n_batch
    /\ fit.n_batch > 1
    /\ DOMAIN model.records.bufs = {"w", "b"}
    /\ \A n \in {"w", "b"} :
          \A i \in 1..model.records.n_records :
             model.records.bufs[n][i] # NaN

\* the slots (counted from 1) the running fit() has not reached yet
Unreached ==
    {i \in 1..SnapshotCount :
        i > (IF fit.args.record_freq.s = "batch" THEN fit.steps
             ELSE fit.epoch)}

\* C14: the buffers are allocated full of NaN; a step of the loop changes
\* no slot but the one of its batch or epoch, no buffer appears or
\* disappears and no node changes; and the slots not reached yet hold NaN,
\* so that a fit() ended by an error leaves NaN in every slot it did not
\* write.
C14_UnwrittenSlotsStayNaN ==
    [][/\ (fit.pc = "idle" /\ fit'.pc = "loop" /\ fit'.args.record # None) =>
             \A n \in DOMAIN model'.records.bufs :
                \A i \in DOMAIN model'.records.bufs[n] :
                   model'.records.bufs[n][i] = NaN
       /\ Recording =>
             \A n \in DOMAIN model.records.bufs :
                \A i \in Unreached : model.records.bufs[n][i] = NaN
       /\ fit.pc = "loop" =>
             /\ nodes' = nodes
             /\ DOMAIN model'.records.bufs = DOMAIN model.records.bufs
             /\ \A n \in DOMAIN model.records.bufs :
                   /\ DOMAIN model'.records.bufs[n]
                         = DOMAIN model.records.bufs[n]
                   /\ \A i \in DOMAIN model.records.bufs[n] :
                         Written(n, i) =>
                            /\ Recording
                            /\ i = SlotOfStep + 1]_vars

\* a recording fit() was halted by an error of a training step after it
\* had written a slot and before it had written them all
C14_Witness ==
    /\ lastCall.op = "fit"
    /\ lastCall.stage = "train"
    /\ model.has_records
    /\ \E n \in DOMAIN model.records.bufs :
          /\ \E i \in DOMAIN model.records.bufs[n] :
                model.records.bufs[n][i] # NaN
          /\ \E i \in DOMAIN model.records.bufs[n] :
                model.records.bufs[n][i] = NaN

\* the names a record argument asks for, 'all' apart
Asked(rec) ==
    IF rec.k = "str" THEN {rec.s} \ {"all"}
    ELSE IF rec.k = "list" THEN {rec.items[i].s : i \in DOMAIN rec.items}
    ELSE {}

\* the names of the Parameters below node id
NamesBelow(ns, id) ==
    {ns[n].name : n \in {m \in Range(Below(ns, id)) : ns[m].kind = "param"}}

\* the record arguments of the fit() call this step is, if it is one that
\* passed the input checks
RecordOfCall ==
    IF fit.pc = "idle" /\ fit'.pc = "loop" THEN {fit'.args.record}
    ELSE IF fit.pc = "idle" /\ lastCall'.op = "fit"
               /\ "record" \in DOMAIN lastCall'
         THEN {lastCall'.record}
    ELSE {}

\* the columns of x in the fit() call this step is, if it is one that
\* passed the input checks
ColumnsOfCall ==
    IF fit.pc = "idle" /\ fit'.pc = "loop" THEN fit'.args.x_columns
    ELSE IF fit.pc = "idle" /\ lastCall'.op = "fit"
               /\ "x_columns" \in DOMAIN lastCall'
         THEN lastCall'.x_columns
    ELSE <<>>

\* C15: on a model with Parameters whose Inputs find their columns in x, a
\* fit() whose record argument asks for a name that no Parameter of the
\* model has raises ValueError without entering the loop, and leaves
\* is_fit and the records of the model as they were.
C15_UnknownRecordName ==
    [][\A rec \in RecordOfCall :
          (~NoParameters(nodes, root)
              /\ assign_input_info(nodes, root, ColumnsOfCall).err = "none"
              /\ Asked(rec) \ NamesBelow(nodes, root) # {}) =>
             /\ lastCall'.err = "ValueError"
             /\ fit'.pc = "idle"
             /\ nodes'[root].is_fit = nodes[root].is_fit
             /\ model'.has_records = model.has_records
             /\ model'.records = model.records]_vars

\* a fit() asking to record ['w', 'z'] was rejected on a model that an
\* earlier fit() had trained and recorded
C15_Witness ==
    /\ lastCall.op = "fit"
    /\ "record" \in DOMAIN lastCall
    /\ lastCall.record = L(<<S("w"), S("z")>>)
    /\ lastCall.err = "ValueError"
    /\ history.returned > 0
    /\ nodes[root].is_fit
    /\ model.has_records
    /\ model.records.n_records > 0

\* C16: in the loop of fit() the optimizer steps come one at a time and in
\* order: the steps made so far are those of the epochs gone by and of the
\* batches 0..batch-1 of the current one; a step inside an epoch trains on
\* the next batch of that epoch, and only after the last batch of an epoch
\* does the next epoch start, at batch 0 and without a step.
C16_StepsInOrder ==
    [][fit.pc = "loop" =>
          LET nb == BatchesFor(TrainRows, fit.args.batch_size.v) IN
          /\ fit.batch \in 0..nb
          /\ fit.epoch \in 0..fit.args.epochs.v
          /\ fit.steps = fit.epoch * nb + fit.batch
          /\ fit'.pc = "loop" =>
                \/ /\ fit.batch < nb
                   /\ fit'.epoch = fit.epoch
                   /\ fit'.batch = fit.batch + 1
                   /\ fit'.steps = fit.steps + 1
                \/ /\ fit.batch = nb
                   /\ fit'.epoch = fit.epoch + 1
                   /\ fit'.batch = 0
                   /\ fit'.steps = fit.steps]_vars

\* a fit() is in its second epoch, after the first batch of two
C16_Witness ==
    /\ fit.pc = "loop"
    /\ fit.n_batch = 2
    /\ fit.epoch = 1
    /\ fit.batch = 1
    /\ fit.steps = 3

\* what a build writes on a node
BuildOutputs(n) ==
    <<n.built_args, n.mean_args, n.built_obj, n.mean_obj, n.has_sums,
      n.samp_loss_sum, n.mean_loss_sum, n.kl_loss_sum, n.p_log_loss,
      n.p_mean_log_loss, n.p_kl_loss>>

\* C17: however often fit() was called, every node has the class, args and
\* kwargs it was constructed with, and once fit() has built the tree every
\* node has the build outputs and the loss sums of one build of the tree
\* as constructed (those of construction until then).
C17_RefitDoesNotAccumulate ==
    \E m \in Models :
       /\ Len(m) = Len(nodes)
       /\ \A id \in DOMAIN nodes :
             /\ nodes[id].cls = m[id].cls
             /\ nodes[id].args = m[id].args
             /\ nodes[id].kwargs = m[id].kwargs
       /\ \E fresh \in {IF nodes[root].has_sums
                          THEN build_outermost(m, Len(m),
                                                 nodes[root].built_obj.data).ns
                          ELSE m} :
             \A id \in DOMAIN nodes :
                BuildOutputs(nodes[id]) = BuildOutputs(fresh[id])

\* the second fit() of a model with Parameters has returned
C17_Witness ==
    /\ history.calls = 2
    /\ history.returned = 2
    /\ lastCall.op = "fit"
    /\ lastCall.err = "none"
    /\ nodes[root].kl_loss_sum
          = ParamInputs[1].losses.kl + ParamInputs[2].losses.kl
    /\ nodes[root].built_obj # None

\* C18: when a fit() returns, the training-data reference, the
\* placeholders, the session and the parameter list of the model are those
\* this call made, and so are the records: none if it was called with
\* record=None, the buffers of this call otherwise.
C18_TrainingStateReplaced ==
    [][fit.pc = "loop" /\ fit'.pc = "idle" /\ lastCall'.err = "none" =>
          /\ model'.train = history.calls
          /\ model'.ph = history.calls
          /\ model'.session = history.calls
          /\ model'.parameters = parameter_list(nodes, root)
          /\ fit.args.record = None => ~model'.has_records
          /\ fit.args.record # None =>
                /\ model'.has_records
                /\ model'.records.n_records = SnapshotCount]_vars

\* the session of the model is open and every Parameter of its list
\* references it
SessionShared ==
    /\ model.session \in sessions
    /\ model.session = history.calls
    /\ \A i \in DOMAIN model.parameters :
          nodes[model.parameters[i]].session = model.session

\* C19: a fit() that reaches its loop has created one session, which every
\* Parameter of the model references, and at any time at most one session
\* made by the fits of the model is open.
C19_OneOpenSession ==
    /\ fit.pc = "loop" => SessionShared
    /\ Cardinality(sessions) <= 1

(***************************************************************************)
(* The constructor of Parameter (parameters.py): its argument checks, in   *)
(* the order of the code, and the attributes it assigns.                   *)
(***************************************************************************)
\* most dimensions of a shape passed as a list or an array
MaxRank == 3
\* largest dimension passed
MaxDim == 2

\* a numpy array of the dtype with the elements
NdArray(dtype, items) == [k |-> "ndarray", dtype |-> dtype, items |-> items]

\* the first assert of the statements that fails, as the error it raises
FirstFailure(checks) ==
    IF \E i \in DOMAIN checks : ~checks[i].ok
    THEN LET i == CHOOSE j \in DOMAIN checks :
                     /\ ~checks[j].ok
                     /\ \A h \in 1..(j - 1) : checks[h].ok
         IN  [err |-> checks[i].err, msg |-> checks[i].msg]
    ELSE [err |-> "none", msg |-> ""]

\* the statement `assert ok, msg`
Stmt(ok, msg) == [ok |-> ok, err |-> "AssertionError", msg |-> msg]

\* the asserts on shape (lines 136-146)
shape_checks(shape) ==
    <<Stmt(shape.k \in {"int", "bool", "list", "ndarray"},
              "shape must be an int, list of ints, or a numpy ndarray"),
      Stmt(IsInt(shape) => shape.v > 0, "shape must be positive"),
      Stmt(shape.k = "list" =>
                 \A i \in DOMAIN shape.items : IsInt(shape.items[i]),
              "shape must be integer(s)"),
      Stmt(shape.k = "ndarray" => shape.dtype = "int",
              "shape must be integer(s)"),
      Stmt(shape.k = "ndarray" =>
                 \A i \in DOMAIN shape.items : shape.items[i] >= 0,
              "shape must be positive")>>

\* the checks on the other arguments (lines 147-171); issubclass raises a
\* TypeError of its own when its first argument is not a class
other_checks(a) ==
    <<Stmt(a.name.k = "str", "name must be a string"),
      Stmt(a.prior = None \/ a.prior.k = "dist",
              "prior must be a probflow distribution or None"),
      [ok |-> a.posterior_fn.k \in {"distclass", "class"},
       err |-> "TypeError", msg |-> "issubclass() arg 1 must be a class"],
      Stmt(a.posterior_fn.k = "distclass",
              "posterior_fn must be a probflow distribution"),
      Stmt(a.post_param_names.k = "list",
              "post_param_names must be a list of strings"),
      Stmt(a.post_param_names.k = "list" => AllStr(a.post_param_names),
              "post_param_names must be a list of strings"),
      Stmt(a.post_param_lb.k = "list",
              "post_param_lb must be a list of numbers"),
      Stmt(a.post_param_lb.k = "list" /\ a.post_param_names.k = "list" =>
                 Len(a.post_param_lb.items) = Len(a.post_param_names.items),
              "post_param_lb must be same length as post_param_names"),
      Stmt(a.post_param_lb.k = "list" =>
                 \A i \in DOMAIN a.post_param_lb.items :
                    a.post_param_lb.items[i].k
                       \in {"none", "int", "bool", "float"},
              "post_param_lb must contain ints or floats or None"),
      Stmt(a.post_param_ub.k = "list",
              "post_param_ub must be a list of numbers"),
      Stmt(a.post_param_ub.k = "list" /\ a.post_param_names.k = "list" =>
                 Len(a.post_param_ub.items) = Len(a.post_param_names.items),
              "post_param_ub must be same length as post_param_names"),
      Stmt(a.post_param_ub.k = "list" =>
                 \A i \in DOMAIN a.post_param_ub.items :
                    a.post_param_ub.items[i].k
                       \in {"none", "int", "bool", "float"},
              "post_param_ub must contain ints or floats or None"),
      Stmt(a.estimator = None \/ a.estimator.k = "str",
              "estimator must be None or a string")>>

\* Parameter(**a): the error raised, or the object with the attributes
\* assigned (lines 174-185); _built_prior and _built_posterior are
\* assigned by _build only
Parameter_init(a) ==
    LET r == FirstFailure(shape_checks(a.shape) \o other_checks(a)) IN
    IF r.err # "none" THEN [err |-> r.err, msg |-> r.msg, obj |-> NoObj]
    ELSE [err |-> "none", msg |-> "",
          obj |-> [shape |-> a.shape, name |-> a.name, prior |-> a.prior,
                   posterior_fn |-> a.posterior_fn,
                   post_param_names |-> a.post_param_names,
                   post_param_lb |-> a.post_param_lb,
                   post_param_ub |-> a.post_param_ub,
                   seed |-> a.seed, estimator |-> a.estimator,
                   posterior |-> None, built_prior |-> Unset,
                   built_posterior |-> Unset]]

\* tensor values are fixed-point numbers in units of 1/Scale
Scale == 100

\* largest magnitude of an unconstrained variable
MaxData == 2

\* tf.exp(d) and tf.sigmoid(d) for d in -4..4, in units of 1/Scale
ExpTable == <<2, 5, 14, 37, 100, 272, 739, 2009, 5460>>

SigmoidTable == <<2, 5, 12, 27, 50, 73, 88, 95, 98>>

tf_exp(d) == ExpTable[d + 5]

tf_sigmoid(d) == SigmoidTable[d + 5]

\* _bound with the upper bound alone mirrored below ub
Parameter_bound_below_ub(data, lb, ub) ==
    IF ub = None
    THEN IF lb = None THEN data * Scale
         ELSE lb.v * Scale + tf_exp(data)
    ELSE IF lb = None THEN ub.v * Scale - tf_exp(-data)
         ELSE lb.v * Scale + (ub.v - lb.v) * tf_sigmoid(data)

\* _bound(data, lb, ub) (lines 211-220)
Parameter_bound(data, lb, ub) ==
    IF ub = None
    THEN IF lb = None THEN data * Scale
         ELSE lb.v * Scale + tf_exp(data)
    ELSE IF lb = None THEN tf_exp(-data)
         ELSE lb.v * Scale + (ub.v - lb.v) * tf_sigmoid(data)

\* _build(data) on the Parameter p (lines 240-261); vals: the values of the
\* variables tf.get_variable makes, one for each posterior parameter
Parameter_build(p, vals) ==
    LET params == [i \in DOMAIN p.post_param_names.items |->
                      Parameter_bound(vals[i], p.post_param_lb.items[i],
                            p.post_param_ub.items[i])]
        post   == [k |-> "dist", params |-> params]
    IN  [p EXCEPT !.built_prior = IF p.prior # None THEN V("built", 0)
                                  ELSE @,
                  !.posterior = post,
                  !.built_posterior = post]

\* _ensure_is_built (lines 223-226)
ensure_is_built(p) == IF p.posterior = None THEN "RuntimeError" ELSE "none"

\* _log_loss(vals) (lines 368-374): the error raised, or the value returned
Parameter_log_loss(p) ==
    IF ensure_is_built(p) # "none"
    THEN [err |-> ensure_is_built(p), val |-> None]
    ELSE IF p.prior # None
         THEN IF p.built_prior = Unset
              THEN [err |-> "AttributeError", val |-> None]
              ELSE [err |-> "none", val |-> V("tensor", 0)]
         ELSE [err |-> "none", val |-> V("int", 0)]

\* _kl_loss() (lines 383-387): it reads self._built_prior and
\* self.prior.kl_loss_sum whatever the prior is
Parameter_kl_loss(p) ==
    IF ensure_is_built(p) # "none"
    THEN [err |-> ensure_is_built(p), val |-> None]
    ELSE IF p.built_prior = Unset \/ p.prior = None
         THEN [err |-> "AttributeError", val |-> None]
         ELSE [err |-> "none", val |-> V("tensor", 0)]

\* the defaults of the signature (lines 122-130)
ParameterDefaults ==
    [shape |-> V("int", 1), name |-> S("Parameter"), prior |-> V("dist", 0),
     posterior_fn |-> V("distclass", 0),
     post_param_names |-> L(<<S("loc"), S("scale")>>),
     post_param_lb |-> L(<<None, V("int", 0)>>),
     post_param_ub |-> L(<<None, None>>),
     seed |-> None, estimator |-> S("flipout")]

\* the dimensions passed and one element that is no integer
Dims == {V("int", d) : d \in -1..MaxDim}

ShapeValues ==
    Dims
      \cup {L(t) : t \in Tuples(Dims \cup {S("a")}, MaxRank)}
      \cup {NdArray("int", t) : t \in Tuples(-1..MaxDim, MaxRank)}
      \cup {NdArray("float", t) : t \in Tuples({0, 1}, 1)}
      \cup {None, S("a"), V("float", 1), V("bool", 0), V("bool", 1)}

\* a bound of a posterior parameter: none or a number
BoundValues == {None} \cup {V("int", b) : b \in -1..1}

\* the calls made: every shape with the other arguments at their defaults,
\* every pair of bounds lb <= ub for the second posterior parameter, and
\* each other argument of a wrong type or length in turn
ParameterArgs ==
    {[ParameterDefaults EXCEPT !.shape = sh] : sh \in ShapeValues}
      \cup {[ParameterDefaults EXCEPT !.post_param_lb = L(<<None, b[1]>>),
                                      !.post_param_ub = L(<<None, b[2]>>)] :
               b \in {c \in BoundValues \X BoundValues :
                         c[1] = None \/ c[2] = None \/ c[1].v <= c[2].v}}
      \cup {[ParameterDefaults EXCEPT !.name = V("int", 5)],
            [ParameterDefaults EXCEPT !.prior = None],
            [ParameterDefaults EXCEPT !.prior = V("int", 5)],
            [ParameterDefaults EXCEPT !.posterior_fn = V("class", 0)],
            [ParameterDefaults EXCEPT !.posterior_fn = V("int", 5)],
            [ParameterDefaults EXCEPT !.post_param_names = S("loc")],
            [ParameterDefaults EXCEPT
                !.post_param_names = L(<<S("loc"), V("int", 1)>>)],
            [ParameterDefaults EXCEPT !.post_param_lb = V("int", 0)],
            [ParameterDefaults EXCEPT !.post_param_lb = L(<<None>>)],
            [ParameterDefaults EXCEPT
                !.post_param_lb = L(<<None, S("a")>>)],
            [ParameterDefaults EXCEPT !.post_param_ub = V("int", 0)],
            [ParameterDefaults EXCEPT !.post_param_ub = L(<<None>>)],
            [ParameterDefaults EXCEPT
                !.post_param_ub = L(<<None, S("a")>>)],
            [ParameterDefaults EXCEPT !.estimator = None],
            [ParameterDefaults EXCEPT !.estimator = V("int", 1)]}

InitParam ==
    /\ \E a \in ParameterArgs :
          call = [cls |-> "Parameter", args |-> <<>>, kwargs |-> a]
    /\ nodes = <<>>
    /\ lastCall = NoResult
    /\ NoFit

\* Parameter(**kwargs) for the pending call
ParameterCall ==
    /\ lastCall.op = "none"
    /\ LET r == Parameter_init(call.kwargs) IN
       /\ nodes' = IF r.err = "none" THEN Append(nodes, r.obj) ELSE nodes
       /\ lastCall' = [op |-> "Parameter", err |-> r.err, msg |-> r.msg]
    /\ UNCHANGED <<call, fitvars>>

\* param._build(data) on the Parameter constructed
ParameterBuild ==
    /\ lastCall.op = "Parameter"
    /\ lastCall.err = "none"
    /\ \E vals \in [DOMAIN nodes[1].post_param_names.items
                       -> -MaxData..MaxData] :
          /\ nodes' = <<Parameter_build(nodes[1], vals)>>
          /\ lastCall' = [op |-> "_build", err |-> "none", vals |-> vals]
    /\ UNCHANGED <<call, fitvars>>

\* the Parameter exists and no loss of it has been asked for yet
LossCallable ==
    \/ lastCall.op = "Parameter" /\ lastCall.err = "none"
    \/ lastCall.op = "_build"

\* param._log_loss(vals)
ParameterLogLoss ==
    /\ LossCallable
    /\ \E r \in {Parameter_log_loss(nodes[1])} :
          lastCall' = [op |-> "_log_loss", err |-> r.err, val |-> r.val]
    /\ UNCHANGED <<call, nodes, fitvars>>

\* param._kl_loss()
ParameterKlLoss ==
    /\ LossCallable
    /\ \E r \in {Parameter_kl_loss(nodes[1])} :
          lastCall' = [op |-> "_kl_loss", err |-> r.err, val |-> r.val]
    /\ UNCHANGED <<call, nodes, fitvars>>

NextParam ==
    \/ ParameterCall
    \/ ParameterBuild
    \/ ParameterLogLoss
    \/ ParameterKlLoss

SpecParam == InitParam /\ [][NextParam]_vars

\* the shape has a dimension that is zero or negative
NonPositiveDim(shape) ==
    \/ shape.k = "int" /\ shape.v <= 0
    \/ shape.k = "list" /\ \E i \in DOMAIN shape.items :
                              shape.items[i].k = "int" /\ shape.items[i].v <= 0
    \/ shape.k = "ndarray" /\ \E i \in DOMAIN shape.items : shape.items[i] <= 0

\* C20: a Parameter call whose shape, be it an integer, a list or an array,
\* has a zero or negative dimension ends in an error, and no Parameter
\* object has a shape with such a dimension.
C20_NonPositiveShapeFails ==
    /\ lastCall.op = "Parameter" /\ NonPositiveDim(call.kwargs.shape) =>
          lastCall.err # "none"
    /\ \A id \in DOMAIN nodes : ~NonPositiveDim(nodes[id].shape)

\* the Parameter constructed has been built
ParamBuilt == Len(nodes) = 1 /\ nodes[1].posterior # None

\* C21: on a built Parameter without prior, _kl_loss() and _log_loss()
\* raise nothing and return 0.
C21_NoPriorNoLoss ==
    ParamBuilt /\ nodes[1].prior = None
       /\ lastCall.op \in {"_kl_loss", "_log_loss"} =>
          /\ lastCall.err = "none"
          /\ lastCall.val = V("int", 0)

\* C22: every posterior parameter of a built Parameter is at or above its
\* lower bound when one is declared and at or below its upper bound when one
\* is declared.
C22_BoundsHold ==
    ParamBuilt =>
       \A i \in DOMAIN nodes[1].posterior.params :
          LET lb == nodes[1].post_param_lb.items[i]
              ub == nodes[1].post_param_ub.items[i]
              x  == nodes[1].posterior.params[i]
          IN  /\ lb # None => x >= lb.v * Scale
              /\ ub # None => x <= ub.v * Scale

\* C23: in every state between two operations, each node has its sample
\* output (built_obj) and its mean output (mean_obj) both None or both set.
C23_OutputsSetTogether ==
    \A id \in DOMAIN nodes :
       (nodes[id].built_obj = None) <=> (nodes[id].mean_obj = None)

\* the column names the Input tin asks for
NamedColumns(ns, tin) ==
    LET t_col == Get(ns[tin].kwargs, "cols") IN
    IF t_col.k = "str" THEN {t_col.s}
    ELSE IF t_col.k = "list"
    THEN {t_col.items[i].s :
             i \in {j \in DOMAIN t_col.items : t_col.items[j].k = "str"}}
    ELSE {}

\* the cols option of the Input is a name, an index or a list of these
ColsWellTyped(ns, tin) ==
    LET t_col == Get(ns[tin].kwargs, "cols") IN
    \/ t_col.k \in {"str", "int"}
    \/ t_col.k = "list" /\ \A i \in DOMAIN t_col.items :
                              t_col.items[i].k \in {"str", "int"}

\* the Input nodes of the model
InputNodes == {id \in DOMAIN nodes : nodes[id].cls = "Input"}

\* int_cols is cols with every name replaced by its position in cs
ResolvedIn(t_col, int_cols, cs) ==
    IF t_col.k = "str"
    THEN int_cols.k = "int" /\ TupleIndexOk(cs, int_cols.v)
            /\ int_cols.v >= 0 /\ cs[int_cols.v + 1] = t_col.s
    ELSE IF t_col.k = "int" THEN int_cols = t_col
    ELSE /\ int_cols.k = "list"
         /\ DOMAIN int_cols.items = DOMAIN t_col.items
         /\ \A i \in DOMAIN t_col.items :
               IF t_col.items[i].k = "str"
               THEN /\ int_cols.items[i].k = "int"
                    /\ int_cols.items[i].v \in 0..(Len(cs) - 1)
                    /\ cs[int_cols.items[i].v + 1] = t_col.items[i].s
               ELSE int_cols.items[i] = t_col.items[i]

\* C24: a fit() that passes its input checks on a model one of whose Inputs
\* names a column that x does not have raises RuntimeError while it resolves
\* the columns: no node is built, no session is made and no step of the
\* loop is taken.  When every name is a column of x, every Input has its
\* names replaced by their positions in the columns of x.
C24_ColumnsResolved ==
    [][history'.calls = history.calls + 1 =>
          LET cs == IF fit'.pc = "loop" THEN fit'.args.x_columns
                    ELSE lastCall'.x_columns
              missing == \E tin \in InputNodes :
                            ~(NamedColumns(nodes, tin) \subseteq Range(cs))
          IN  /\ missing =>
                    /\ lastCall'.err = "RuntimeError"
                    /\ lastCall'.stage = "columns"
                    /\ fit' = Idle
                    /\ sessions' = sessions
                    /\ \A id \in DOMAIN nodes :
                          BuildOutputs(nodes'[id]) = BuildOutputs(nodes[id])
              /\ (~missing /\ \A tin \in InputNodes :
                                 ColsWellTyped(nodes, tin)) =>
                    /\ lastCall'.stage # "columns"
                    /\ \A tin \in InputNodes :
                          ResolvedIn(Get(nodes[tin].kwargs, "cols"),
                                     nodes'[tin].int_cols, cs)]_vars

\* a fit() on x with the columns ('b', 'a') has resolved the names of both
\* Inputs, and a later fit() on x without column 'b' has raised
C24_Witness ==
    /\ lastCall.op = "fit"
    /\ lastCall.stage = "columns"
    /\ lastCall.err = "RuntimeError"
    /\ lastCall.x_columns = <<"a">>
    /\ history.calls = 2
    /\ \E tin \in InputNodes :
          /\ Get(nodes[tin].kwargs, "cols") = S("b")
          /\ nodes[tin].int_cols = V("int", 0)
    /\ \E tin \in InputNodes :
          /\ Get(nodes[tin].kwargs, "cols").k = "list"
          /\ nodes[tin].int_cols
                = L(<<V("int", 0), V("int", 0), V("int", 1)>>)

\* the bindings of Layer n are those of its arguments after a build on the
\* batch d: an integer as a float in both paths, another number or tensor
\* as it is in both, a Layer or Parameter as its sample output in the sample
\* path and its mean output in the mean path, both built on d
BoundFromArgs(ns, n, d) ==
    /\ DOMAIN ns[n].built_args = DOMAIN ns[n].args
    /\ DOMAIN ns[n].mean_args = DOMAIN ns[n].args
    /\ \A i \in DOMAIN ns[n].args :
          LET arg == ns[n].args[i].val
              b   == ns[n].built_args[i]
              m   == ns[n].mean_args[i]
          IN  /\ b.name = ns[n].args[i].name
              /\ m.name = ns[n].args[i].name
              /\ IF arg.k = "int"
                 THEN b.val = V("float", arg.v) /\ m.val = V("float", arg.v)
                 ELSE IF arg.k \in TensorLikeKinds
                 THEN b.val = arg /\ m.val = arg
                 ELSE /\ b.val = Out("sample", arg.v, d)
                      /\ m.val = Out("mean", arg.v, d)
                      /\ ns[arg.v].built_obj = b.val
                      /\ ns[arg.v].mean_obj = m.val

MaxRows == 2
\* largest magnitude of a target or a prediction
MaxTarget == 1

RECURSIVE np_sum(_)
np_sum(v) == IF v = <<>> THEN 0 ELSE Head(v) + np_sum(Tail(v))

np_mean(v) == [num |-> np_sum(v), den |-> Len(v)]

np_square(v) == [i \in DOMAIN v |-> v[i] * v[i]]

\* y - y_pred, elementwise
Diff(y, y_pred) == [i \in DOMAIN y |-> y[i] - y_pred[i]]

\* y == y_pred, elementwise, True counting as 1
Equal(y, y_pred) == [i \in DOMAIN y |-> IF y[i] = y_pred[i] THEN 1 ELSE 0]

\* the list metrics() works on: a str is wrapped into a list
MetricList(metric_list) ==
    IF metric_list.k = "str" THEN {metric_list.s}
    ELSE {metric_list.items[i].s : i \in DOMAIN metric_list.items}

\* the dict metrics() returns
metrics_dict(metric_list, y, y_pred) ==
    LET ml   == MetricList(metric_list)
        keys == (IF "acc" \in ml \/ "accuracy" \in ml THEN {"accuracy"} ELSE {})
                  \cup (ml \cap {"mse", "sse", "mae"})
    IN  [key \in keys |->
           CASE key = "accuracy" -> np_mean(Equal(y, y_pred))
             [] key = "mse" -> np_mean(np_square(Diff(y, y_pred)))
             [] key = "sse" ->
                   [num |-> np_sum(np_square(Diff(y, y_pred))), den |-> 1]
             [] key = "mae" -> np_mean(Diff(y, y_pred))]

\* the vectors of targets and of predictions
Vectors == UNION {[1..n -> -MaxTarget..MaxTarget] : n \in 1..MaxRows}

MetricLists ==
    {S("mae"), L(<<S("mae")>>), L(<<S("mse"), S("sse")>>), L(<<S("acc")>>),
     L(<<S("accuracy"), S("mae")>>), V("int", 42)}

InitMetrics ==
    /\ \E ml \in MetricLists, y \in Vectors, is_fit \in BOOLEAN :
       \E y_pred \in {v \in Vectors : Len(v) = Len(y)} :
          call = [cls |-> "metrics", metric_list |-> ml, y |-> y,
                  y_pred |-> y_pred, is_fit |-> is_fit]
    /\ nodes = <<>>
    /\ lastCall = NoResult
    /\ NoFit

\* model.metrics(metric_list, x, y) for the pending call
MetricsCall ==
    /\ lastCall.op = "none"
    /\ \E e \in {metrics(call.is_fit, call.metric_list, None, None, None)} :
          lastCall' =
             IF e # "none" THEN [op |-> "metrics", err |-> e]
             ELSE [op |-> "metrics", err |-> "none",
                   val |-> metrics_dict(call.metric_list, call.y,
                                        call.y_pred)]
    /\ UNCHANGED <<call, nodes, fitvars>>

NextMetrics == MetricsCall

SpecMetrics == InitMetrics /\ [][NextMetrics]_vars

Abs(n) == IF n < 0 THEN -n ELSE n

\* C26: the value under 'mae' is the mean of |y - y_pred|: it is not
\* negative and is zero only when every prediction equals its target; 'mse'
\* is the mean and 'sse' the sum of the squared differences, and 'acc' and
\* 'accuracy' are both reported under 'accuracy'.
C26_MaeIsMeanAbsoluteError ==
    lastCall.op = "metrics" /\ lastCall.err = "none" =>
       LET d   == Diff(call.y, call.y_pred)
           ml  == MetricList(call.metric_list)
           val == lastCall.val
       IN  /\ "mae" \in ml =>
                 /\ val["mae"] = np_mean([i \in DOMAIN d |-> Abs(d[i])])
                 /\ val["mae"].num >= 0
                 /\ val["mae"].num = 0 => call.y = call.y_pred
           /\ "mse" \in ml =>
                 val["mse"] = [num |-> np_sum([i \in DOMAIN d |-> d[i] * d[i]]),
                               den |-> Len(d)]
           /\ "sse" \in ml =>
                 val["sse"] = [num |-> np_sum([i \in DOMAIN d |-> d[i] * d[i]]),
                               den |-> 1]
           /\ ("acc" \in ml \/ "accuracy" \in ml) =>
                 /\ "accuracy" \in DOMAIN val
                 /\ "acc" \notin DOMAIN val

(***************************************************************************)
(* What a failing fit() leaves of an earlier one (checked under Spec).     *)
(***************************************************************************)
\* the stages of fit() that come before its session is created
BeforeSession == {"columns", "build", "parameters"}

\* C27: is_fit never goes back to false, and it is true as soon as fit() is
\* in its loop.  So a fit() of a model that is already fit, when it raises
\* after its input checks, leaves is_fit true with the training data and the
\* placeholders of the failed call; the session is still the one of the
\* earlier fit when the raise comes before the session is created, and the
\* new one when it comes from the records.
C27_FitFlagMonotone ==
    [][/\ nodes[root].is_fit => nodes'[root].is_fit
       /\ fit'.pc = "loop" => nodes'[root].is_fit
       /\ (/\ nodes[root].is_fit
           /\ history'.calls = history.calls + 1
           /\ lastCall'.err \notin {"none", "pending"}) =>
             /\ nodes'[root].is_fit
             /\ model'.train = history'.calls
             /\ model'.ph = history'.calls
             /\ lastCall'.stage \in BeforeSession =>
                   /\ model'.session = model.session
                   /\ model'.session # history'.calls
                   /\ sessions' = sessions
             /\ lastCall'.stage = "records" =>
                   model'.session = history'.calls]_vars

\* a second fit() raised on a missing column after the first one returned:
\* the model is fit, with the placeholders of the second call and the
\* session of the first
C27_Witness ==
    /\ history.calls = 2
    /\ history.returned = 1
    /\ fit.pc = "idle"
    /\ lastCall.op = "fit"
    /\ lastCall.err = "RuntimeError"
    /\ lastCall.stage = "columns"
    /\ nodes[root].is_fit
    /\ model.ph = 2
    /\ model.train = 2
    /\ model.session = 1

(***************************************************************************)
(* Graphs in which a node fills several argument slots (checked under      *)
(* SpecBuild).                                                             *)
(***************************************************************************)
\* how many entries of the sequence are x
Count(seq, x) == Cardinality({i \in DOMAIN seq : seq[i] = x})

\* the argument slots of the graph below r that hold node n
Slots(ns, r, n) ==
    {<<m, i>> \in Reached(ns, r) \X (1..MaxPos) :
        i \in DOMAIN ns[m].args /\ ns[m].args[i].val = Ref(ns, n)}

\* what a node contributes by itself to the three sums
OwnLoss(ns, n) ==
    IF ns[n].kind = "param" THEN ns[n].losses
    ELSE [kl |-> ClassOf(ns[n].cls).self_kl,
          log |-> ClassOf(ns[n].cls).self_log,
          mean_log |-> ClassOf(ns[n].cls).self_mean_log]

\* the three sums of the root r when node n counts times[n] times
WeightedSums(ns, r, times) ==
    LET below == Range(Below(ns, r)) IN
    [kl |-> SetSum(below, [n \in below |-> times[n] * OwnLoss(ns, n).kl]),
     log |-> SetSum(below, [n \in below |-> times[n] * OwnLoss(ns, n).log]),
     mean_log |->
        SetSum(below, [n \in below |-> times[n] * OwnLoss(ns, n).mean_log])]

\* one recursive build of r has built node n times[n] times, summed its
\* losses as often and lists a Parameter as often
BuiltTimes(ns, r, times) ==
    /\ \A n \in Range(Below(ns, r)) :
          /\ ns[n].builds = times[n]
          /\ ns[n].built_obj = Out("sample", n, ns[r].built_obj.data)
          /\ ns[n].kind = "param" =>
                Count(parameter_list(ns, r), n) = times[n]
    /\ [kl |-> ns[r].kl_loss_sum, log |-> ns[r].samp_loss_sum,
        mean_log |-> ns[r].mean_loss_sum] = WeightedSums(ns, r, times)
    /\ parameter_list(ns, r)
          = SelectSeq(Below(ns, r), LAMBDA n : ns[n].kind = "param")

\* the last step was a recursive build that returned
BuildReturned == lastCall.op = "build" /\ lastCall.err = "none"

SchemaNames(cls) ==
    Range(Names(cls.default_args)) \cup Range(Names(cls.default_kwargs))

\* the keywords of the call without those that match no schema name
KnownKeywords(cls, kwargs) ==
    [n \in DOMAIN kwargs \cap SchemaNames(cls) |-> kwargs[n]]

\* the keywords of the call without those of the arguments given
\* positionally
WithoutShadowed(cls, args, kwargs) ==
    [n \in DOMAIN kwargs
             \ {cls.default_args[i].name :
                   i \in DOMAIN cls.default_args \cap 1..Len(args)} |->
        kwargs[n]]

\* some argument is bound to a value of a kind no argument may have
BadKind ==
    \E i \in DOMAIN CalledCls.default_args :
       RuleValue(CalledCls, call.args, call.kwargs, i).k \notin ValidKinds

\* C29: construction never rejects a call for its keyword names: the call
\* has the outcome of the call without its unknown keywords and of the call
\* without the keywords of the arguments given positionally; and it raises
\* only the TypeError of a missing required argument, checked first, and
\* the TypeError of an invalid type.
C29_OnlyTypeErrors ==
    Called =>
       /\ LayerInit(CalledCls, call.args,
                    KnownKeywords(CalledCls, call.kwargs))
             = LayerInit(CalledCls, call.args, call.kwargs)
       /\ LayerInit(CalledCls, call.args,
                    WithoutShadowed(CalledCls, call.args, call.kwargs))
             = LayerInit(CalledCls, call.args, call.kwargs)
       /\ StillRequired =>
             lastCall.err = "TypeError" /\ lastCall.why = "required"
       /\ (~StillRequired /\ BadKind) =>
             lastCall.err = "TypeError" /\ lastCall.why = "type"
       /\ (~StillRequired /\ ~BadKind) => lastCall.err = "none"

\* the same for the calls whose positional values all fit the argument
\* schema
C29_OnlyTypeErrors_WithinSchema ==
    Len(call.args) <= Len(CalledCls.default_args) => C29_OnlyTypeErrors

(***************************************************************************)
(* Parameters of one name.  _validate_params and the records key a         *)
(* Parameter by its name; the model below has two Parameters named 'w'.    *)
(***************************************************************************)
\* the dict d with d[k] = v
Put(d, k, v) == [x \in DOMAIN d \cup {k} |-> IF x = k THEN v ELSE d[x]]

\* the loop that makes param_dict, over the Parameters i.. of the list
RECURSIVE ParamDictFrom(_, _, _, _, _)
ParamDictFrom(ns, ps, i, names, d) ==
    IF i > Len(ps) THEN d
    ELSE ParamDictFrom(ns, ps, i + 1, names,
                       IF ns[ps[i]].name \in names
                       THEN Put(d, ns[ps[i]].name, ps[i]) ELSE d)

\* param_dict with the first Parameter of every name
validate_params_keeping_first(ns, ps, params, rec, records) ==
    LET names == IF params = None THEN ParamNames(ns, ps)
                 ELSE IF params.k = "str" THEN {params.s}
                 ELSE {params.items[i].s : i \in DOMAIN params.items}
    IN  [err |-> "none",
         dict |-> [n \in names \cap ParamNames(ns, ps) |->
                     ps[Min({i \in DOMAIN ps : ns[ps[i]].name = n})]]]

\* BaseDistribution._validate_params(params, rec): the error it raises and
\* the dict it returns
validate_params(ns, ps, params, rec, records) ==
    IF params # None /\ params.k \notin {"list", "str"}
    THEN [err |-> "TypeError", dict |-> <<>>]
    ELSE IF params.k = "list" /\ ~AllStr(params)
    THEN [err |-> "TypeError", dict |-> <<>>]
    ELSE LET names == IF params = None THEN ParamNames(ns, ps)
                      ELSE IF params.k = "str" THEN {params.s}
                      ELSE {params.items[i].s : i \in DOMAIN params.items}
         IN  IF names \ ParamNames(ns, ps) # {}
             THEN [err |-> "ValueError", dict |-> <<>>]
             ELSE IF rec /\ names \ DOMAIN records.bufs # {}
             THEN [err |-> "ValueError", dict |-> <<>>]
             ELSE [err |-> "none",
                   dict |-> ParamDictFrom(ns, ps, 1, names, <<>>)]

\* the methods that return one value for every entry of param_dict, and
\* the one that reads the records
ByParameter == {"posterior_mean", "posterior_sample", "prior_sample"}

ByRecord == {"posterior_plot_over_training"}

\* the values of their params argument
ParamsValues ==
    {None, S("w"), L(<<S("w")>>), S("z"), L(<<S("w"), V("int", 1)>>),
     V("int", 1)}

\* w1 = Parameter('w'); w2 = Parameter('w')
\* Normal((Input() + w1) + w2, 1.0)
SameNameModel ==
    LET n1 == Param(<<>>, 1)
        n2 == Param(n1, 1)
        n3 == Make(n2, InputCls, <<>>)
        n4 == Make(n3, AddCls, <<Ref(n3, 3), Ref(n3, 1)>>)
        n5 == Make(n4, AddCls, <<Ref(n4, 4), Ref(n4, 2)>>)
    IN  Make(n5, NormalCls, <<Ref(n5, 5), V("float", 1)>>)

InitNames ==
    /\ call = NoCall
    /\ nodes = SameNameModel /\ root = Len(SameNameModel)
    /\ lastCall = NoResult
    /\ model = NoModel
    /\ sessions = {}
    /\ fit = Idle
    /\ history = NoHistory

\* model.<method>(params) for a method that takes the names of Parameters
ParamsCall ==
    /\ fit.pc = "idle"
    /\ ~Probed
    /\ \E method \in ByParameter \cup ByRecord, params \in ParamsValues :
       \E r \in {IF ensure_is_fit(nodes[root].is_fit) # "none"
                 THEN [err |-> ensure_is_fit(nodes[root].is_fit),
                       dict |-> <<>>]
                 ELSE validate_params(nodes, model.parameters, params,
                                      method \in ByRecord, model.records)} :
          lastCall' = [op |-> "diag", method |-> method, params |-> params,
                       is_fit |-> nodes[root].is_fit, err |-> r.err,
                       param_dict |-> r.dict]
    /\ UNCHANGED <<call, nodes, root, model, sessions, fit, history>>

NextNames ==
    \/ FitCall
    \/ FitBatch
    \/ FitBatchRaise
    \/ FitEpochEnd
    \/ FitReturn
    \/ ParamsCall

SpecNames == InitNames /\ [][NextNames]_vars

\* the Parameters of the model's list that have the name
Named(n) == {model.parameters[i] : i \in
                {j \in DOMAIN model.parameters :
                    nodes[model.parameters[j]].name = n}}

\* the Parameter of that name that comes last in the list
LastNamed(n) ==
    model.parameters[Max({j \in DOMAIN model.parameters :
                             nodes[model.parameters[j]].name = n})]

\* the slots (counted from 1) the running fit() has written
Reached_slots ==
    {i \in 1..SnapshotCount :
        i <= (IF fit.args.record_freq.s = "batch" THEN fit.steps
              ELSE fit.epoch)}

\* C30: Parameters are told apart by name only.  A method that takes the
\* names of Parameters and returns gets from _validate_params one entry for
\* every name asked, that of the Parameter that comes last in the list; the
\* records hold one buffer for every recorded name, and a slot written
\* holds the value of the last Parameter of that name.
C30_ParametersKeyedByName ==
    /\ (lastCall.op = "diag" /\ lastCall.err = "none") =>
          /\ DOMAIN lastCall.param_dict
                = IF lastCall.params = None
                  THEN ParamNames(nodes, model.parameters)
                  ELSE Asked(lastCall.params)
          /\ \A n \in DOMAIN lastCall.param_dict :
                lastCall.param_dict[n] = LastNamed(n)
    /\ Recording =>
          /\ DOMAIN model.records.bufs
                \subseteq ParamNames(nodes, model.parameters)
          /\ \A n \in DOMAIN model.records.bufs :
                \A i \in Reached_slots :
                   \E steps \in 1..fit.steps :
                      model.records.bufs[n][i]
                         = posterior_value(nodes, LastNamed(n), steps)

\* posterior_mean() of a fit model with two Parameters named 'w' has one
\* entry, the second Parameter, and the buffer of 'w' holds a value of the
\* second Parameter
C30_Witness ==
    /\ lastCall.op = "diag"
    /\ lastCall.method = "posterior_mean"
    /\ lastCall.err = "none"
    /\ lastCall.params = None
    /\ model.parameters = <<1, 2>>
    /\ Named("w") = {1, 2}
    /\ lastCall.param_dict = [n \in {"w"} |-> 2]
    /\ model.has_records
    /\ DOMAIN model.records.bufs = {"w"}
    /\ model.records.n_records >= 1
    /\ model.records.bufs["w"][1] = posterior_value(nodes, 2, 1)

====
